---- MODULE Spec2Model ----
(***************************************************************************)
(* A model of the workflow generator: PRDParser -> WorkflowGenerator       *)
(* (analysis, persona selection) -> persona workflow synthesis ->          *)
(* enrichment (DependencyAnalyzer, RiskAssessment) -> OutputFormatter.     *)
(*                                                                         *)
(* Numbers the code keeps as floats in [0,1] with two decimals (the        *)
(* analysis's complexity, weights) are kept as integers in hundredths; the *)
(* parser's own estimate, requirements.complexity, in ten-thousandths.     *)
(***************************************************************************)
EXTENDS Integers, Sequences, FiniteSets, TLC

VARIABLES
    pc,                \* position inside generateWorkflow
    input,             \* the `input` argument
    options,           \* { ...this.options, ...flags }
    requirements,      \* result of parseInput
    analysis,          \* result of analyzeRequirements
    persona,           \* persona.type of the selected persona
    baseWorkflow,      \* result of persona.generateWorkflow
    enhancedWorkflow,  \* result of enhanceWorkflow
    error,             \* message of the error the call threw, or NoError
    formattedOutput,   \* result of outputFormatter.format: its heading lines
    validation,        \* result of qualityGates.validate, or NoValidation
    generator,         \* the generator's own fields, when several calls are followed
    invocations,       \* the locals of the generateWorkflow calls started on it
    extraction         \* a markdown document's tokens and the sections found in them

vars ==
    <<pc, input, options, requirements, analysis, persona, baseWorkflow,
      enhancedWorkflow, error, formattedOutput, validation, generator, invocations,
      extraction>>

(***************************************************************************)
(* Values                                                                  *)
(***************************************************************************)
Undefined == "undefined"
NoError == "none"

Min(a, b) == IF a < b THEN a ELSE b
Max(a, b) == IF a > b THEN a ELSE b

\* ceil(n / d) for n >= 0, d > 0
CeilDiv(n, d) == (n + d - 1) \div d

Range(s) == {s[i] : i \in 1..Len(s)}

\* Array.prototype.slice(0, n)
Slice(s, n) == [i \in 1..Min(Len(s), n) |-> s[i]]

RECURSIVE Flatten(_)
Flatten(ss) == IF ss = <<>> THEN <<>> ELSE Head(ss) \o Flatten(Tail(ss))

RECURSIVE SumSeq(_)
SumSeq(s) == IF s = <<>> THEN 0 ELSE Head(s) + SumSeq(Tail(s))

\* String.prototype.toLowerCase on the strings of the model
toLowerCase(s) ==
    CASE s = "Frontend" -> "frontend"
      [] s = "QA" -> "qa"
      [] s = "AUTO" -> "auto"
      [] s = "Table" -> "table"
      [] s = "Stripe" -> "stripe"
      [] s = "Slack" -> "slack"
      [] s = "Twilio" -> "twilio"
      [] s = "GitHub" -> "github"
      [] s = "Shop" -> "shop"
      [] s = "Build" -> "build"
      [] s = "Implement" -> "implement"
      [] s = "Add" -> "add"
      [] s = "Deploy" -> "deploy"
      [] s = "Security" -> "security"
      [] s = "Plan" -> "plan"
      [] s = "API Keys" -> "api keys"
      [] s = "Ansible" -> "ansible"
      [] s = "Apache Bench" -> "apache bench"
      [] s = "AppDynamics" -> "appdynamics"
      [] s = "Artillery" -> "artillery"
      [] s = "BrowserStack" -> "browserstack"
      [] s = "Chrome DevTools" -> "chrome devtools"
      [] s = "CloudFormation" -> "cloudformation"
      [] s = "Colour Contrast Analyser" -> "colour contrast analyser"
      [] s = "Context API" -> "context api"
      [] s = "Critical" -> "critical"
      [] s = "DOMPurify" -> "dompurify"
      [] s = "DataDog" -> "datadog"
      [] s = "Docker" -> "docker"
      [] s = "Docker Compose" -> "docker compose"
      [] s = "ELK stack" -> "elk stack"
      [] s = "ESLint" -> "eslint"
      [] s = "Email" -> "email"
      [] s = "Figma" -> "figma"
      [] s = "GTmetrix" -> "gtmetrix"
      [] s = "GitHub Actions" -> "github actions"
      [] s = "GitLab CI" -> "gitlab ci"
      [] s = "Google Analytics" -> "google analytics"
      [] s = "ImageOptim" -> "imageoptim"
      [] s = "JAWS" -> "jaws"
      [] s = "JWT" -> "jwt"
      [] s = "Jenkins" -> "jenkins"
      [] s = "Joi" -> "joi"
      [] s = "Kubernetes" -> "kubernetes"
      [] s = "Lighthouse" -> "lighthouse"
      [] s = "Miro" -> "miro"
      [] s = "Modernizr" -> "modernizr"
      [] s = "MongoDB" -> "mongodb"
      [] s = "Mongoose" -> "mongoose"
      [] s = "MySQL" -> "mysql"
      [] s = "NVDA" -> "nvda"
      [] s = "New Relic" -> "new relic"
      [] s = "OAuth 2.0" -> "oauth 2.0"
      [] s = "OpenAPI" -> "openapi"
      [] s = "PagerDuty" -> "pagerduty"
      [] s = "Passport.js" -> "passport.js"
      [] s = "PostCSS" -> "postcss"
      [] s = "PostgreSQL" -> "postgresql"
      [] s = "Stripe api" -> "stripe api"
      [] s = "Overview" -> "overview"
      [] s = "OVERVIEW" -> "overview"
      [] s = "Features" -> "features"
      [] s = "User Stories" -> "user stories"
      [] s = "Acceptance Criteria" -> "acceptance criteria"
      [] s = "Technical Requirements" -> "technical requirements"
      [] s = "Constraints" -> "constraints"
      [] s = "Timeline" -> "timeline"
      [] s = "Resources" -> "resources"
      [] s = "Notes" -> "notes"
      [] s = "Glossary" -> "glossary"
      [] s = "Postman" -> "postman"
      [] s = "Prettier" -> "prettier"
      [] s = "PurgeCSS" -> "purgecss"
      [] s = "Real devices" -> "real devices"
      [] s = "Redis" -> "redis"
      [] s = "Redux" -> "redux"
      [] s = "Sass" -> "sass"
      [] s = "Sauce Labs" -> "sauce labs"
      [] s = "Sentry" -> "sentry"
      [] s = "Sequelize" -> "sequelize"
      [] s = "Sharp" -> "sharp"
      [] s = "Sketch" -> "sketch"
      [] s = "Storybook" -> "storybook"
      [] s = "Swagger" -> "swagger"
      [] s = "Tailwind" -> "tailwind"
      [] s = "Terraform" -> "terraform"
      [] s = "TypeORM" -> "typeorm"
      [] s = "Vite" -> "vite"
      [] s = "VoiceOver" -> "voiceover"
      [] s = "WAVE" -> "wave"
      [] s = "Web Vitals" -> "web vitals"
      [] s = "WebPageTest" -> "webpagetest"
      [] s = "Webpack" -> "webpack"
      [] s = "Webpack Bundle Analyzer" -> "webpack bundle analyzer"
      [] s = "Zustand" -> "zustand"
      [] s = "React" -> "react"
      [] s = "REST" -> "rest"
      [] s = "API" -> "api"
      [] s = "PostgreSQL" -> "postgresql"
      [] s = "a responsive admin dashboard with React components" ->
             "a responsive admin dashboard with react components"
      [] s = "REST API with authentication and PostgreSQL database integration" ->
             "rest api with authentication and postgresql database integration"
      [] OTHER -> s

(***************************************************************************)
(* Bounds of the model                                                     *)
(***************************************************************************)
\* how far past a cap of calculateComplexity a collection's length goes
MaxOver == 1
\* longest feature list handed to a persona
MaxFeatures == 6

(***************************************************************************)
(* Catalogs                                                                *)
(***************************************************************************)
PersonaTypes == {"architect", "frontend", "backend", "security", "devops", "qa"}
Strategies == {"systematic", "agile", "mvp"}
Domains == {"frontend", "backend", "security", "infrastructure", "mobile"}
Patterns == {"ui-component", "api", "database", "authentication", "realtime",
             "responsive", "testing", "deployment", "performance", "security"}

(***************************************************************************)
(* Requirements records.  Collections are sequences, as the parser returns *)
(* arrays; a field the parser does not set is Undefined.                   *)
(***************************************************************************)
Feature(name, priority, complexity) ==
    [name |-> name, priority |-> priority, complexity |-> complexity]

\* String(i) for the small naturals the model prints
Digits == <<"0", "1", "2", "3", "4", "5", "6", "7", "8", "9">>

RECURSIVE ToStr(_)
ToStr(i) == IF i < 10 THEN Digits[i + 1] ELSE ToStr(i \div 10) \o Digits[(i % 10) + 1]

\* n items "x1", ..., "xn" of a collection
Items(prefix, n) == [i \in 1..n |-> prefix \o ToStr(i)]

\* a requirements object in which no signal is present
EmptyRequirements ==
    [ title |-> "", overview |-> "", features |-> <<>>, components |-> <<>>, integrations |-> <<>>,
      userRoles |-> <<>>, pages |-> <<>>, complexity |-> 0,
      domains |-> {}, patterns |-> {},
      realtime |-> FALSE, security |-> Undefined, performance |-> Undefined,
      scalability |-> Undefined, timeline |-> Undefined, team |-> Undefined,
      technicalRequirements |-> [security |-> FALSE, scalability |-> Undefined] ]

(***************************************************************************)
(* WorkflowGenerator: scoring                                              *)
(***************************************************************************)
\* a faulty variant: the final Math.min(score, 1) is missing
calculateComplexityUnclamped(r) ==
    Min(Len(r.components), 10) * 5 + Min(Len(r.integrations), 5) * 10
    + Min(Len(r.userRoles), 5) * 5 + Min(Len(r.features), 20) * 3
    + Min(Len(r.pages), 15) * 2
    + (IF r.realtime THEN 20 ELSE 0) + (IF r.security = "high" THEN 15 ELSE 0)
    + (IF r.performance = "critical" THEN 10 ELSE 0)
    + (IF r.scalability = "enterprise" THEN 15 ELSE 0)

calculateComplexity(r) ==
    LET factors == Min(Len(r.components), 10) * 5 + Min(Len(r.integrations), 5) * 10
                   + Min(Len(r.userRoles), 5) * 5 + Min(Len(r.features), 20) * 3
                   + Min(Len(r.pages), 15) * 2
        score == factors
                 + (IF r.realtime THEN 20 ELSE 0)
                 + (IF r.security = "high" THEN 15 ELSE 0)
                 + (IF r.performance = "critical" THEN 10 ELSE 0)
                 + (IF r.scalability = "enterprise" THEN 15 ELSE 0)
    IN  Min(score, 100)

\* assessInitialRisk reads requirements.complexity, the parser's own estimate
assessInitialRisk(r) ==
    LET riskScore == (IF r.complexity > 7000 THEN 2 ELSE 0)
                     + (IF Len(r.integrations) > 3 THEN 2 ELSE 0)
                     + (IF r.security = "high" THEN 1 ELSE 0)
                     + (IF r.timeline = "tight" THEN 2 ELSE 0)
                     + (IF r.team = "small" THEN 1 ELSE 0)
    IN  IF riskScore >= 5 THEN "high"
        ELSE IF riskScore >= 3 THEN "medium"
        ELSE "low"

\* a faulty variant: a week is added where the product should be rounded up
estimateDurationPadded(r) ==
    LET baseTenths == 20 + Len(r.components) * 5 + Len(r.features) * 3
                      + Len(r.integrations) * 10
    IN  (baseTenths * (100 + calculateComplexity(r))) \div 1000 + 1

\* Math.ceil((2 + 0.5 c + 0.3 f + 1 i) * (1 + complexity)), in exact arithmetic
estimateDuration(r) ==
    LET baseTenths == 20 + Len(r.components) * 5 + Len(r.features) * 3
                      + Len(r.integrations) * 10
    IN  CeilDiv(baseTenths * (100 + calculateComplexity(r)), 1000)

(***************************************************************************)
(* MCPIntegration.enhanceAnalysis: the keys it adds to the analysis        *)
(***************************************************************************)
enhanceAnalysis(a, r) ==
    (IF "documentation" \in a.domains \/ Len(r.integrations) > 0 \/ "api" \in a.patterns
        THEN {"documentationPatterns"} ELSE {})
    \cup (IF a.complexity > 60 \/ Cardinality(a.domains) > 2 \/ "architecture" \in a.patterns
        THEN {"structuredAnalysis"} ELSE {})
    \cup (IF "frontend" \in a.domains \/ "ui-component" \in a.patterns \/ Len(r.components) > 0
        THEN {"uiComponentInsights"} ELSE {})
    \cup (IF "testing" \in a.patterns \/ "qa" \in a.domains
        THEN {"testingInsights"} ELSE {})

analyzeRequirements(r, opts) ==
    LET a == [ complexity |-> calculateComplexity(r),
               domains |-> r.domains,
               patterns |-> r.patterns,
               riskLevel |-> assessInitialRisk(r),
               estimatedDuration |-> estimateDuration(r),
               mcp |-> {} ]
    IN  IF opts.enableMCP THEN [a EXCEPT !.mcp = enhanceAnalysis(a, r)] ELSE a

(***************************************************************************)
(* WorkflowGenerator.autoDetectPersona                                     *)
(***************************************************************************)
\* a faulty variant: the backend indicators are tested before the frontend ones
autoDetectPersonaBackendFirst(a) ==
    IF "backend" \in a.domains \/ "api" \in a.patterns \/ "database" \in a.patterns
        THEN "backend"
    ELSE IF "frontend" \in a.domains \/ "ui-component" \in a.patterns \/ "responsive" \in a.patterns
        THEN "frontend"
    ELSE IF "security" \in a.domains \/ "authentication" \in a.patterns \/ "encryption" \in a.patterns
        THEN "security"
    ELSE IF "infrastructure" \in a.domains \/ "deployment" \in a.patterns \/ "ci-cd" \in a.patterns
        THEN "devops"
    ELSE "architect"

autoDetectPersona(a) ==
    IF "frontend" \in a.domains \/ "ui-component" \in a.patterns \/ "responsive" \in a.patterns
        THEN "frontend"
    ELSE IF "backend" \in a.domains \/ "api" \in a.patterns \/ "database" \in a.patterns
        THEN "backend"
    ELSE IF "security" \in a.domains \/ "authentication" \in a.patterns \/ "encryption" \in a.patterns
        THEN "security"
    ELSE IF "infrastructure" \in a.domains \/ "deployment" \in a.patterns \/ "ci-cd" \in a.patterns
        THEN "devops"
    ELSE IF Cardinality(a.domains) > 2 \/ a.complexity > 80
        THEN "architect"
    ELSE "architect"

(***************************************************************************)
(* PersonaFactory                                                          *)
(***************************************************************************)
\* the keys of this.personas; each class passes its own key to super(type, ...)
personas == PersonaTypes

hasType(type) == toLowerCase(type) \in personas

\* a faulty variant: the factory looks the name up as given
createCaseSensitive(type) ==
    IF type \in personas
        THEN [ok |-> TRUE, type |-> type, message |-> NoError]
        ELSE [ok |-> FALSE, type |-> Undefined, message |-> "Unknown persona type: " \o type]

\* PersonaFactory.create: the type of the persona created, or the error thrown
create(type) ==
    IF toLowerCase(type) \in personas
        THEN [ok |-> TRUE, type |-> toLowerCase(type), message |-> NoError]
        ELSE [ok |-> FALSE, type |-> Undefined, message |-> "Unknown persona type: " \o type]

\* WorkflowGenerator.selectPersona
selectPersona(a, opts) ==
    IF opts.persona # "auto" THEN create(opts.persona)
    ELSE create(autoDetectPersona(a))

(***************************************************************************)
(* Phases and tasks.  A task keeps the fields the generator reads later;   *)
(* a number the code leaves unset (estimatedHours, storyPoints) is 0, a    *)
(* string it leaves unset is Undefined, a list it leaves unset is empty.    *)
(***************************************************************************)
Task(type, title, description, tools, hours, deliverables) ==
    [type |-> type, title |-> title, description |-> description, tools |-> tools,
     priority |-> Undefined, estimatedHours |-> hours, storyPoints |-> 0,
     deliverables |-> deliverables]

\* a task object with type, title and description only
PlainTask(type, title, description) ==
    Task(type, title, description, <<>>, 0, <<>>)

Phase(name, type, duration, tasks) ==
    [name |-> name, type |-> type, duration |-> duration, tasks |-> tasks,
     estimatedDuration |-> Undefined]

(***************************************************************************)
(* The fixed phases of the personas, one definition per builder method     *)
(***************************************************************************)
\* ArchitectPersona.createSystemAnalysisPhase
ArchitectPersona_createSystemAnalysisPhase ==
    Phase("System Analysis & Context", "analysis", "1-2 weeks", <<
        Task("analysis", "Stakeholder analysis",
             "Identify all stakeholders and their requirements",
             <<>>, 8,
             <<"Stakeholder matrix", "Requirements traceability">>),
        Task("analysis", "System context mapping",
             "Map system boundaries and external dependencies",
             <<>>, 12,
             <<"Context diagram", "Integration boundaries">>),
        Task("analysis", "Quality attribute analysis",
             "Define performance, security, and scalability requirements",
             <<>>, 10,
             <<"Quality attribute scenarios", "Non-functional requirements">>),
        Task("analysis", "Constraint analysis",
             "Identify technical, business, and regulatory constraints",
             <<>>, 6,
             <<"Constraint catalog", "Risk assessment">>),
        Task("analysis", "Legacy system analysis",
             "Analyze existing systems and integration requirements",
             <<>>, 8,
             <<"Legacy system inventory", "Migration strategy">>) >>)

\* ArchitectPersona.createArchitecturalDesignPhase
ArchitectPersona_createArchitecturalDesignPhase ==
    Phase("Architectural Design", "architecture", "2-3 weeks", <<
        Task("design", "High-level architecture design",
             "Create system overview and major component structure",
             <<>>, 16,
             <<"System architecture diagram", "Component overview">>),
        Task("design", "Data architecture design",
             "Design data storage, flow, and management strategy",
             <<>>, 12,
             <<"Data architecture diagram", "Data governance plan">>),
        Task("design", "Integration architecture",
             "Design service boundaries and communication patterns",
             <<>>, 14,
             <<"Integration patterns", "API strategy">>),
        Task("design", "Security architecture",
             "Design security controls and threat mitigation",
             <<>>, 10,
             <<"Security architecture", "Threat model">>),
        Task("design", "Deployment architecture",
             "Design infrastructure and deployment strategy",
             <<>>, 8,
             <<"Deployment diagram", "Infrastructure plan">>) >>)

\* ArchitectPersona.createTechnologySelectionPhase
ArchitectPersona_createTechnologySelectionPhase ==
    Phase("Technology Selection & Standards", "technology", "1 week", <<
        Task("research", "Technology landscape analysis",
             "Research and evaluate technology options",
             <<>>, 12,
             <<"Technology comparison matrix", "Evaluation criteria">>),
        Task("design", "Technology stack selection",
             "Select frameworks, libraries, and platform technologies",
             <<>>, 8,
             <<"Technology stack document", "Decision rationale">>),
        Task("design", "Development standards definition",
             "Define coding standards, patterns, and practices",
             <<>>, 6,
             <<"Development standards", "Architecture patterns catalog">>),
        Task("design", "Tool chain selection",
             "Select development, testing, and deployment tools",
             <<>>, 4,
             <<"Tool chain specification", "Development workflow">>) >>)

\* ArchitectPersona.createScalabilityPlanningPhase (the phase it returns when it does not return null)
ArchitectPersona_createScalabilityPlanningPhase ==
    Phase("Scalability & Performance Planning", "scalability", "1-2 weeks", <<
        Task("analysis", "Load and performance modeling",
             "Model expected load patterns and performance requirements",
             <<>>, 10,
             <<"Load model", "Performance targets">>),
        Task("design", "Horizontal scaling strategy",
             "Design horizontal scaling approach and auto-scaling",
             <<>>, 8,
             <<"Scaling strategy", "Auto-scaling configuration">>),
        Task("design", "Caching strategy design",
             "Design multi-level caching strategy",
             <<>>, 6,
             <<"Caching architecture", "Cache invalidation strategy">>),
        Task("design", "Database scaling design",
             "Design database scaling and partitioning strategy",
             <<>>, 12,
             <<"Database scaling plan", "Sharding strategy">>),
        Task("design", "Performance monitoring design",
             "Design performance monitoring and alerting",
             <<>>, 4,
             <<"Monitoring strategy", "Performance dashboards">>) >>)

\* ArchitectPersona.createImplementationRoadmapPhase
ArchitectPersona_createImplementationRoadmapPhase ==
    Phase("Implementation Roadmap", "planning", "1 week", <<
        Task("planning", "Module dependency analysis",
             "Analyze dependencies between system modules",
             <<>>, 6,
             <<"Dependency matrix", "Implementation sequence">>),
        Task("planning", "Incremental delivery planning",
             "Plan incremental delivery milestones and MVPs",
             <<>>, 8,
             <<"Delivery roadmap", "Milestone definitions">>),
        Task("planning", "Risk mitigation planning",
             "Identify architectural risks and mitigation strategies",
             <<>>, 6,
             <<"Risk register", "Mitigation plans">>),
        Task("planning", "Team structure planning",
             "Plan team organization around architectural components",
             <<>>, 4,
             <<"Team topology", "Communication strategy">>) >>)

\* ArchitectPersona.createQualityAssurancePhase
ArchitectPersona_createQualityAssurancePhase ==
    Phase("Quality Assurance Strategy", "quality", "1 week", <<
        Task("design", "Testing strategy design",
             "Design comprehensive testing strategy across all levels",
             <<>>, 8,
             <<"Testing strategy", "Test automation plan">>),
        Task("design", "Code quality framework",
             "Define code quality metrics and enforcement mechanisms",
             <<>>, 4,
             <<"Quality framework", "Code review guidelines">>),
        Task("design", "Architecture review process",
             "Define architecture review and governance process",
             <<>>, 3,
             <<"Review process", "Architecture decision records">>),
        Task("design", "Continuous integration design",
             "Design CI/CD pipeline and quality gates",
             <<>>, 6,
             <<"CI/CD pipeline design", "Quality gate definitions">>) >>)

\* ArchitectPersona.createEvolutionStrategyPhase
ArchitectPersona_createEvolutionStrategyPhase ==
    Phase("Evolution & Maintenance Strategy", "evolution", "3-5 days", <<
        Task("planning", "Maintainability planning",
             "Plan for long-term maintainability and evolution",
             <<>>, 6,
             <<"Maintainability plan", "Evolution strategy">>),
        Task("planning", "Technical debt management",
             "Define technical debt tracking and management process",
             <<>>, 4,
             <<"Debt management process", "Refactoring schedule">>),
        Task("planning", "Knowledge management",
             "Plan documentation and knowledge transfer strategy",
             <<>>, 3,
             <<"Documentation strategy", "Knowledge base structure">>),
        Task("planning", "Future capability planning",
             "Plan for anticipated future requirements and capabilities",
             <<>>, 5,
             <<"Future roadmap", "Capability evolution plan">>) >>)

\* FrontendPersona.createUXAnalysisPhase
FrontendPersona_createUXAnalysisPhase ==
    Phase("UX Analysis & Planning", "ux-design", "3-5 days", <<
        Task("analysis", "User journey mapping",
             "Map all user flows and interaction patterns",
             <<"Figma", "Miro">>, 8,
             <<"User journey maps", "Flow diagrams">>),
        Task("design", "Wireframe creation",
             "Create low-fidelity wireframes for all interfaces",
             <<"Figma", "Sketch">>, 12,
             <<"Wireframe library", "Interaction specifications">>),
        Task("analysis", "Accessibility requirements analysis",
             "Define accessibility requirements and compliance targets",
             <<>>, 4,
             <<"Accessibility checklist", "WCAG compliance plan">>),
        Task("analysis", "Performance requirements definition",
             "Set performance budgets and optimization targets",
             <<>>, 3,
             <<"Performance budget document", "Optimization strategy">>) >>)

\* FrontendPersona.createDesignSystemPhase
FrontendPersona_createDesignSystemPhase ==
    Phase("Design System Development", "design-system", "5-8 days", <<
        Task("design", "Component library design",
             "Design reusable UI components and patterns",
             <<"Figma", "Storybook">>, 16,
             <<"Component library", "Design tokens">>),
        Task("design", "Typography and color system",
             "Define typography scales, color palettes, and spacing",
             <<>>, 6,
             <<"Design tokens", "Style guide">>),
        Task("design", "Responsive breakpoint strategy",
             "Define responsive behavior and breakpoint system",
             <<>>, 4,
             <<"Responsive guidelines", "Grid system">>),
        Task("implement", "CSS architecture setup",
             "Implement CSS architecture and build system",
             <<"Sass", "PostCSS", "Tailwind">>, 8,
             <<"CSS framework", "Build configuration">>) >>)

\* FrontendPersona.createAccessibilityTestingPhase
FrontendPersona_createAccessibilityTestingPhase ==
    Phase("Accessibility Testing & Compliance", "accessibility", "2-3 days", <<
        Task("test", "Automated accessibility testing",
             "Run automated accessibility audits and fix issues",
             <<"axe-core", "Lighthouse", "WAVE">>, 6,
             <<"Accessibility audit report", "Fixed violations">>),
        Task("test", "Manual accessibility testing",
             "Perform manual testing with screen readers and keyboard navigation",
             <<"NVDA", "JAWS", "VoiceOver">>, 8,
             <<"Manual test results", "Accessibility improvements">>),
        Task("test", "Color contrast validation",
             "Validate color contrast ratios meet WCAG guidelines",
             <<"Colour Contrast Analyser">>, 3,
             <<"Contrast audit report", "Color adjustments">>),
        Task("implement", "ARIA implementation",
             "Implement proper ARIA labels and semantic markup",
             <<>>, 5,
             <<"ARIA implementation", "Semantic HTML">>) >>)

\* FrontendPersona.createPerformanceOptimizationPhase
FrontendPersona_createPerformanceOptimizationPhase ==
    Phase("Performance Optimization", "performance", "3-4 days", <<
        Task("optimize", "Bundle size optimization",
             "Optimize JavaScript bundles and implement code splitting",
             <<"Webpack Bundle Analyzer", "source-map-explorer">>, 8,
             <<"Optimized bundles", "Code splitting strategy">>),
        Task("optimize", "Image optimization",
             "Optimize images and implement lazy loading",
             <<"ImageOptim", "Sharp", "react-lazyload">>, 4,
             <<"Optimized images", "Lazy loading implementation">>),
        Task("optimize", "CSS optimization",
             "Optimize CSS delivery and remove unused styles",
             <<"PurgeCSS", "Critical">>, 3,
             <<"Optimized CSS", "Critical CSS extraction">>),
        Task("implement", "Performance monitoring setup",
             "Implement performance monitoring and Core Web Vitals tracking",
             <<"Google Analytics", "Sentry", "Web Vitals">>, 4,
             <<"Performance monitoring", "Metrics dashboard">>),
        Task("test", "Performance testing",
             "Conduct performance tests and validate against budgets",
             <<"Lighthouse", "WebPageTest", "GTmetrix">>, 3,
             <<"Performance test results", "Optimization recommendations">>) >>)

\* FrontendPersona.createCrossBrowserTestingPhase
FrontendPersona_createCrossBrowserTestingPhase ==
    Phase("Cross-Browser Testing", "testing", "2-3 days", <<
        Task("test", "Browser compatibility testing",
             "Test functionality across major browsers and versions",
             <<"BrowserStack", "Sauce Labs">>, 8,
             <<"Compatibility test results", "Browser-specific fixes">>),
        Task("test", "Mobile device testing",
             "Test responsive behavior on various mobile devices",
             <<"Chrome DevTools", "Real devices">>, 6,
             <<"Mobile test results", "Responsive fixes">>),
        Task("test", "Feature detection and polyfills",
             "Implement feature detection and necessary polyfills",
             <<"Modernizr", "core-js">>, 4,
             <<"Polyfill strategy", "Feature detection code">>) >>)

\* BackendPersona.createAPIDesignPhase
BackendPersona_createAPIDesignPhase ==
    Phase("API Design & Specification", "api-design", "1-2 weeks", <<
        Task("design", "API specification design",
             "Design RESTful API endpoints and data contracts",
             <<"OpenAPI", "Swagger", "Postman">>, 12,
             <<"OpenAPI specification", "API documentation">>),
        Task("design", "Data model design",
             "Design request/response schemas and validation rules",
             <<>>, 8,
             <<"Data schemas", "Validation specifications">>),
        Task("design", "Authentication & authorization design",
             "Design API security and access control mechanisms",
             <<"JWT", "OAuth 2.0", "API Keys">>, 10,
             <<"Auth specification", "Security policies">>),
        Task("design", "Error handling design",
             "Design consistent error responses and status codes",
             <<>>, 4,
             <<"Error handling specification", "Status code mapping">>),
        Task("design", "Rate limiting & throttling design",
             "Design API rate limiting and abuse protection",
             <<>>, 3,
             <<"Rate limiting specification", "Throttling policies">>) >>)

\* BackendPersona.createDatabaseDesignPhase
BackendPersona_createDatabaseDesignPhase ==
    Phase("Database Design & Architecture", "database", "1-2 weeks", <<
        Task("design", "Database schema design",
             "Design normalized database schema and relationships",
             <<"PostgreSQL", "MySQL", "MongoDB">>, 16,
             <<"Database schema", "Entity relationship diagram">>),
        Task("design", "Data migration strategy",
             "Design data migration and versioning strategy",
             <<>>, 6,
             <<"Migration scripts", "Version control strategy">>),
        Task("design", "Database performance optimization",
             "Design indexing strategy and query optimization",
             <<>>, 8,
             <<"Index strategy", "Query optimization plan">>),
        Task("design", "Backup & recovery strategy",
             "Design backup, recovery, and disaster recovery procedures",
             <<>>, 4,
             <<"Backup strategy", "Recovery procedures">>),
        Task("implement", "Database setup & configuration",
             "Set up database infrastructure and configurations",
             <<>>, 5,
             <<"Database infrastructure", "Configuration files">>) >>)

\* BackendPersona.createSecurityImplementationPhase
BackendPersona_createSecurityImplementationPhase ==
    Phase("Security Implementation", "security", "1-2 weeks", <<
        Task("implement", "Authentication system implementation",
             "Implement user authentication and session management",
             <<"Passport.js", "bcrypt", "JWT">>, 12,
             <<"Authentication service", "Session management">>),
        Task("implement", "Authorization & access control",
             "Implement role-based access control and permissions",
             <<>>, 10,
             <<"Authorization middleware", "Permission system">>),
        Task("implement", "Input validation & sanitization",
             "Implement comprehensive input validation and sanitization",
             <<"Joi", "express-validator", "DOMPurify">>, 8,
             <<"Validation middleware", "Sanitization functions">>),
        Task("implement", "Security headers & middleware",
             "Implement security headers and protective middleware",
             <<"helmet", "cors", "express-rate-limit">>, 4,
             <<"Security middleware", "Headers configuration">>),
        Task("implement", "Encryption & data protection",
             "Implement data encryption and secure storage",
             <<"crypto", "bcrypt", "node-forge">>, 6,
             <<"Encryption utilities", "Secure storage">>) >>)

\* BackendPersona.createPerformanceOptimizationPhase
BackendPersona_createPerformanceOptimizationPhase ==
    Phase("Performance Optimization", "performance", "1 week", <<
        Task("implement", "Caching implementation",
             "Implement multi-level caching strategy",
             <<"Redis", "node-cache", "memcached">>, 8,
             <<"Caching layer", "Cache invalidation">>),
        Task("optimize", "Database query optimization",
             "Optimize database queries and add proper indexing",
             <<>>, 6,
             <<"Optimized queries", "Database indexes">>),
        Task("implement", "Connection pooling",
             "Implement database connection pooling",
             <<>>, 2,
             <<"Connection pool configuration">>),
        Task("implement", "Response compression",
             "Implement response compression and optimization",
             <<"compression", "gzip">>, 2,
             <<"Compression middleware">>),
        Task("test", "Performance testing",
             "Conduct load testing and performance benchmarking",
             <<"Artillery", "k6", "Apache Bench">>, 4,
             <<"Performance test results", "Benchmarks">>) >>)

\* BackendPersona.createMonitoringPhase
BackendPersona_createMonitoringPhase ==
    Phase("Monitoring & Observability", "monitoring", "3-5 days", <<
        Task("implement", "Application monitoring setup",
             "Set up application performance monitoring",
             <<"New Relic", "DataDog", "AppDynamics">>, 4,
             <<"APM configuration", "Performance dashboards">>),
        Task("implement", "Health check endpoints",
             "Implement health check and status endpoints",
             <<>>, 3,
             <<"Health check endpoints", "Status monitoring">>),
        Task("implement", "Structured logging implementation",
             "Implement structured logging with correlation IDs",
             <<"winston", "bunyan", "ELK stack">>, 5,
             <<"Logging configuration", "Log aggregation">>),
        Task("implement", "Alerting & notifications",
             "Set up alerting for critical issues and performance thresholds",
             <<"PagerDuty", "Slack", "Email">>, 3,
             <<"Alert configuration", "Notification setup">>) >>)

\* BackendPersona.createDeploymentPhase
BackendPersona_createDeploymentPhase ==
    Phase("Deployment & Infrastructure", "deployment", "1 week", <<
        Task("setup", "Environment configuration",
             "Configure development, staging, and production environments",
             <<"Docker", "Terraform", "Ansible">>, 8,
             <<"Environment configs", "Infrastructure as code">>),
        Task("implement", "CI/CD pipeline setup",
             "Set up continuous integration and deployment pipeline",
             <<"GitHub Actions", "Jenkins", "GitLab CI">>, 6,
             <<"CI/CD pipeline", "Automated deployment">>),
        Task("implement", "Database deployment strategy",
             "Implement database migration and deployment strategy",
             <<>>, 4,
             <<"Migration scripts", "Deployment procedures">>),
        Task("setup", "Production deployment",
             "Deploy application to production environment",
             <<>>, 3,
             <<"Production deployment", "Rollback procedures">>) >>)

\* BasePersona.createRequirementsAnalysisPhase
BasePersona_createRequirementsAnalysisPhase ==
    Phase("Requirements Analysis", "analysis", "3-5 days", <<
        Task("analysis", "Analyze functional requirements",
             "Deep dive into feature specifications and user needs",
             <<>>, 0,
             <<"Requirements matrix", "Feature breakdown">>),
        Task("analysis", "Define acceptance criteria",
             "Create testable criteria for each requirement",
             <<>>, 0,
             <<"Acceptance criteria document">>),
        Task("analysis", "Identify constraints and assumptions",
             "Document project limitations and dependencies",
             <<>>, 0,
             <<"Constraints document", "Risk register">>) >>)

\* BasePersona.createArchitecturePlanningPhase
BasePersona_createArchitecturePlanningPhase ==
    Phase("Architecture Planning", "design", "5-8 days", <<
        Task("design", "System architecture design",
             "Design high-level system architecture and component structure",
             <<>>, 0,
             <<"Architecture diagram", "Component specifications">>),
        Task("design", "Technology stack selection",
             "Choose appropriate frameworks, libraries, and tools",
             <<>>, 0,
             <<"Technology decisions document">>),
        Task("design", "Database schema design",
             "Design data models and database structure",
             <<>>, 0,
             <<"Database schema", "Data flow diagrams">>) >>)

\* BasePersona.createDependencyMappingPhase (the phase it returns when it does not return null)
BasePersona_createDependencyMappingPhase ==
    Phase("Dependency Mapping", "planning", "2-3 days", <<
        Task("analysis", "Map external dependencies",
             "Identify and document all external service dependencies",
             <<>>, 0,
             <<"Dependency matrix", "Integration points">>),
        Task("planning", "Create integration timeline",
             "Plan integration sequence and test strategies",
             <<>>, 0,
             <<"Integration roadmap">>) >>)

\* BasePersona.createTestingStrategyPhase
BasePersona_createTestingStrategyPhase ==
    Phase("Testing & Validation", "testing", "1-2 weeks", <<
        Task("test", "Unit testing implementation",
             "Create and execute unit tests for all components",
             <<>>, 0,
             <<"Unit test suite", "Coverage report">>),
        Task("test", "Integration testing",
             "Test component interactions and API integrations",
             <<>>, 0,
             <<"Integration test suite">>),
        Task("test", "User acceptance testing",
             "Validate functionality against acceptance criteria",
             <<>>, 0,
             <<"UAT results", "Bug reports">>) >>)

\* BasePersona.createDeploymentPlanningPhase
BasePersona_createDeploymentPlanningPhase ==
    Phase("Deployment & Launch", "deployment", "3-5 days", <<
        Task("setup", "Production environment setup",
             "Configure production infrastructure and services",
             <<>>, 0,
             <<"Environment configuration", "Deployment scripts">>),
        Task("deploy", "Production deployment",
             "Deploy application to production environment",
             <<>>, 0,
             <<"Deployed application", "Deployment logs">>),
        Task("monitor", "Post-deployment monitoring",
             "Monitor application performance and user feedback",
             <<>>, 0,
             <<"Monitoring dashboard", "Performance metrics">>) >>)

\* SecurityPersona.createThreatModelingPhase
SecurityPersona_createThreatModelingPhase ==
    Phase("Threat Modeling & Risk Assessment", "security-analysis", "1 week", <<
        Task("analysis", "Attack surface analysis",
             "Identify and map all potential attack vectors",
             <<>>, 8,
             <<"Attack surface map", "Entry point inventory">>),
        Task("analysis", "Threat model creation",
             "Create STRIDE-based threat model",
             <<>>, 12,
             <<"Threat model", "Risk assessment matrix">>),
        Task("analysis", "Security requirements definition",
             "Define security requirements and controls",
             <<>>, 6,
             <<"Security requirements", "Control framework">>) >>)

\* SecurityPersona.createSecurityArchitecturePhase
SecurityPersona_createSecurityArchitecturePhase ==
    Phase("Security Architecture Design", "security-design", "1-2 weeks", <<
        Task("design", "Zero trust architecture design",
             "Design zero trust security architecture",
             <<>>, 10,
             <<"Security architecture", "Trust boundaries">>),
        Task("design", "Defense in depth strategy",
             "Design layered security controls",
             <<>>, 8,
             <<"Security layers", "Control mapping">>) >>)

\* SecurityPersona.createAuthenticationImplementationPhase
SecurityPersona_createAuthenticationImplementationPhase ==
    Phase("Authentication Implementation", "security-implementation", "1-2 weeks", <<
        Task("implement", "Authentication system setup",
             "Implement secure authentication with JWT/OAuth",
             <<>>, 12,
             <<"Authentication service", "Security configuration">>),
        Task("implement", "Authorization framework",
             "Implement role-based access control",
             <<>>, 10,
             <<"Authorization middleware", "Permission system">>) >>)

\* SecurityPersona.createDataProtectionPhase
SecurityPersona_createDataProtectionPhase ==
    Phase("Data Protection", "security-implementation", "1 week", <<
        Task("implement", "Data encryption implementation",
             "Implement encryption for sensitive data",
             <<>>, 8,
             <<"Encryption utilities", "Data protection policies">>) >>)

\* SecurityPersona.createSecurityTestingPhase
SecurityPersona_createSecurityTestingPhase ==
    Phase("Security Testing", "security-testing", "1 week", <<
        Task("test", "Security vulnerability testing",
             "Conduct security testing and vulnerability assessment",
             <<>>, 16,
             <<"Security test results", "Vulnerability report">>) >>)

\* SecurityPersona.createComplianceValidationPhase
SecurityPersona_createComplianceValidationPhase ==
    Phase("Compliance Validation", "security-validation", "3-5 days", <<
        Task("validate", "Compliance audit",
             "Validate against security compliance requirements",
             <<>>, 8,
             <<"Compliance report", "Audit documentation">>) >>)

\* DevOpsPersona.createInfrastructurePhase
DevOpsPersona_createInfrastructurePhase ==
    Phase("Infrastructure Setup", "infrastructure", "1-2 weeks", <<
        Task("setup", "Infrastructure as Code setup",
             "Set up infrastructure automation with Terraform/CloudFormation",
             <<"Terraform", "CloudFormation", "Ansible">>, 12,
             <<"IaC templates", "Infrastructure documentation">>),
        Task("setup", "Container orchestration setup",
             "Set up container platform and orchestration",
             <<"Docker", "Kubernetes", "Docker Compose">>, 10,
             <<"Container platform", "Orchestration config">>) >>)

\* QAPersona.createTestStrategyPhase
QAPersona_createTestStrategyPhase ==
    Phase("Test Strategy & Planning", "test-planning", "1 week", <<
        Task("planning", "Test strategy development",
             "Develop comprehensive testing strategy",
             <<>>, 8,
             <<"Test strategy document", "Test pyramid design">>),
        Task("planning", "Test case design",
             "Design test cases for all user scenarios",
             <<>>, 12,
             <<"Test case repository", "Traceability matrix">>) >>)

(***************************************************************************)
(* Strings of the model                                                    *)
(***************************************************************************)
\* the names the model gives to features, components and integrations
FeatureNames == <<"login", "payment api", "dashboard">>
ComponentNames == <<"Table", "button", "sidebar", "card", "modal", "menu">>
IntegrationNames == <<"Stripe", "Slack", "Twilio", "GitHub">>

\* s.toLowerCase().includes(sub), over the strings of the model and the
\* keywords the code looks for: the pairs <<s, sub>> for which it is true
IncludesTable ==
    { <<" component with full functionality", "functionality">>,
      <<" external integrations", "external">>, <<" external integrations", "integration">>,
      <<" integration", "integration">>, <<" persona optimized for ", "optimize">>,
      <<" service", "service">>, <<" service with full CRUD operations", "service">>,
      <<" tasks - potential complexity bottleneck", "complex">>, <<" week", "week">>,
      <<" weeks", "week">>, <<"0 weeks", "week">>, <<"1 week", "week">>, <<"1 weeks", "week">>,
      <<"1-2 weeks", "week">>, <<"1-3 weeks", "week">>, <<"10 weeks", "week">>,
      <<"11 weeks", "week">>, <<"12 weeks", "week">>, <<"2 week", "week">>,
      <<"2 weeks", "week">>, <<"2-3 weeks", "week">>, <<"2-4 weeks", "week">>,
      <<"3 weeks", "week">>, <<"4 weeks", "week">>, <<"5 weeks", "week">>,
      <<"6 weeks", "week">>, <<"7 weeks", "week">>, <<"8 weeks", "week">>,
      <<"9 weeks", "week">>, <<"<200ms for API calls", "api">>,
      <<"<200ms for API endpoints", "api">>, <<"<5 minutes for critical services", "service">>,
      <<"API", "api">>, <<"API Design & Specification", "api">>,
      <<"API Design & Specification", "design">>, <<"API Keys", "api">>,
      <<"API development without documentation planning", "api">>,
      <<"API development without documentation planning", "document">>,
      <<"API documentation", "api">>, <<"API documentation", "api doc">>,
      <<"API documentation", "document">>, <<"API endpoints", "api">>,
      <<"API specification compliance check", "api">>,
      <<"API specification compliance check", "compliance">>,
      <<"API specification design", "api">>, <<"API specification design", "design">>,
      <<"API strategy", "api">>, <<"ARIA implementation", "implement">>, <<"AWS", "aws">>,
      <<"Acceptance Criteria", "acceptance">>,
      <<"Acceptance Criteria", "acceptance criteria">>, <<"Acceptance Criteria", "criteria">>,
      <<"Acceptance criteria document", "acceptance">>,
      <<"Acceptance criteria document", "acceptance criteria">>,
      <<"Acceptance criteria document", "criteria">>,
      <<"Acceptance criteria document", "document">>,
      <<"Accessibility Testing & Compliance", "compliance">>,
      <<"Accessibility Testing & Compliance", "test">>,
      <<"Accessibility audit report", "report">>,
      <<"Accessibility requirements analysis", "requirements">>, <<"Add Stripe api", "api">>,
      <<"Add Stripe api", "stripe">>, <<"Add Stripe api. Add stripe api", "api">>,
      <<"Add Stripe api. Add stripe api", "stripe">>,
      <<"Add architecture planning tasks", "architecture">>,
      <<"Add comprehensive testing strategy", "test">>,
      <<"Add documentation tasks and deliverables", "document">>,
      <<"Add missing requirements details", "requirements">>,
      <<"Add performance optimization tasks", "optimization">>,
      <<"Add performance optimization tasks", "performance">>,
      <<"Add security implementation tasks", "implement">>,
      <<"Add security implementation tasks", "security">>, <<"Advanced features", "advanced">>,
      <<"Advanced features", "features">>, <<"Aggressive Timeline", "timeline">>,
      <<"Alerting & notifications", "notification">>,
      <<"All architectural decisions require peer review", "review">>,
      <<"Analyze existing systems and integration requirements", "integration">>,
      <<"Analyze existing systems and integration requirements", "requirements">>,
      <<"Analyze functional requirements", "requirements">>, <<"Angular", "angular">>,
      <<"Anticipate and plan for future requirements", "requirements">>,
      <<"Application monitoring setup", "monitor">>,
      <<"Application monitoring setup", "setup">>, <<"Architectural Design", "design">>,
      <<"Architecture Decision Record (ADR)", "architecture">>,
      <<"Architecture Planning", "architecture">>, <<"Architecture Review", "architecture">>,
      <<"Architecture Review", "review">>,
      <<"Architecture decision record review", "architecture">>,
      <<"Architecture decision record review", "review">>,
      <<"Architecture decision records", "architecture">>,
      <<"Architecture diagram", "architecture">>,
      <<"Architecture patterns catalog", "architecture">>,
      <<"Architecture review", "architecture">>, <<"Architecture review", "review">>,
      <<"Architecture review process", "architecture">>,
      <<"Architecture review process", "review">>,
      <<"Architecture workflow should have more detailed planning", "architecture">>,
      <<"As a user, I want to ", "user">>,
      <<"As a user, I want to REST API with authentication and PostgreSQL database integration", "api">>,
      <<"As a user, I want to REST API with authentication and PostgreSQL database integration", "auth">>,
      <<"As a user, I want to REST API with authentication and PostgreSQL database integration", "authentication">>,
      <<"As a user, I want to REST API with authentication and PostgreSQL database integration", "database">>,
      <<"As a user, I want to REST API with authentication and PostgreSQL database integration", "integration">>,
      <<"As a user, I want to REST API with authentication and PostgreSQL database integration", "postgresql">>,
      <<"As a user, I want to REST API with authentication and PostgreSQL database integration", "rest">>,
      <<"As a user, I want to REST API with authentication and PostgreSQL database integration", "user">>,
      <<"As a user, I want to Stripe api", "api">>,
      <<"As a user, I want to Stripe api", "stripe">>,
      <<"As a user, I want to Stripe api", "user">>,
      <<"As a user, I want to a login form", "user">>,
      <<"As a user, I want to a responsive admin dashboard with React components", "admin">>,
      <<"As a user, I want to a responsive admin dashboard with React components", "react">>,
      <<"As a user, I want to a responsive admin dashboard with React components", "user">>,
      <<"As a user, I want to dashboard", "user">>, <<"As a user, I want to login", "user">>,
      <<"As a user, I want to payment api", "api">>,
      <<"As a user, I want to payment api", "payment">>,
      <<"As a user, I want to payment api", "user">>,
      <<"As a user, I want to search", "search">>, <<"As a user, I want to search", "user">>,
      <<"As a user, I want to stripe api", "api">>,
      <<"As a user, I want to stripe api", "stripe">>,
      <<"As a user, I want to stripe api", "user">>, <<"Audit documentation", "document">>,
      <<"Auth specification", "auth">>, <<"Authentication & authorization design", "auth">>,
      <<"Authentication & authorization design", "authentication">>,
      <<"Authentication & authorization design", "authorization">>,
      <<"Authentication & authorization design", "design">>,
      <<"Authentication Implementation", "auth">>,
      <<"Authentication Implementation", "authentication">>,
      <<"Authentication Implementation", "implement">>,
      <<"Authentication and authorization test", "auth">>,
      <<"Authentication and authorization test", "authentication">>,
      <<"Authentication and authorization test", "authorization">>,
      <<"Authentication and authorization test", "test">>,
      <<"Authentication required", "auth">>, <<"Authentication required", "authentication">>,
      <<"Authentication service", "auth">>, <<"Authentication service", "authentication">>,
      <<"Authentication service", "service">>,
      <<"Authentication system implementation", "auth">>,
      <<"Authentication system implementation", "authentication">>,
      <<"Authentication system implementation", "implement">>,
      <<"Authentication system setup", "auth">>,
      <<"Authentication system setup", "authentication">>,
      <<"Authentication system setup", "setup">>,
      <<"Authentication, authorization, data protection", "auth">>,
      <<"Authentication, authorization, data protection", "authentication">>,
      <<"Authentication, authorization, data protection", "authorization">>,
      <<"Authorization & access control", "auth">>,
      <<"Authorization & access control", "authorization">>,
      <<"Authorization framework", "auth">>, <<"Authorization framework", "authorization">>,
      <<"Authorization framework", "framework">>, <<"Authorization middleware", "auth">>,
      <<"Authorization middleware", "authorization">>,
      <<"Automate everything possible", "automat">>,
      <<"Automate repetitive tests", "automat">>, <<"Automate repetitive tests", "test">>,
      <<"Automated accessibility testing", "automat">>,
      <<"Automated accessibility testing", "test">>,
      <<"Automated backup and recovery", "automat">>, <<"Automated deployment", "automat">>,
      <<"Automated deployment", "deploy">>, <<"Backup and recovery testing", "test">>,
      <<"Browser compatibility testing", "test">>, <<"Bug reports", "report">>,
      <<"Build a responsive admin dashboard with React components, charts, and mobile-friendly design", "admin">>,
      <<"Build a responsive admin dashboard with React components, charts, and mobile-friendly design", "design">>,
      <<"Build a responsive admin dashboard with React components, charts, and mobile-friendly design", "react">>,
      <<"Bundle size optimization", "optimization">>,
      <<"Bundle size optimization check", "optimization">>,
      <<"CI/CD pipeline design", "design">>, <<"CI/CD pipeline setup", "setup">>,
      <<"CSS architecture setup", "architecture">>, <<"CSS architecture setup", "setup">>,
      <<"CSS framework", "framework">>, <<"CSS optimization", "optimization">>,
      <<"Cache invalidation", "cach">>, <<"Cache invalidation", "validation">>,
      <<"Cache invalidation strategy", "cach">>,
      <<"Cache invalidation strategy", "validation">>,
      <<"Caching architecture", "architecture">>, <<"Caching architecture", "cach">>,
      <<"Caching architecture", "caching">>, <<"Caching implementation", "cach">>,
      <<"Caching implementation", "caching">>, <<"Caching implementation", "implement">>,
      <<"Caching layer", "cach">>, <<"Caching layer", "caching">>,
      <<"Caching strategy design", "cach">>, <<"Caching strategy design", "caching">>,
      <<"Caching strategy design", "design">>,
      <<"Choose appropriate frameworks, libraries, and tools", "framework">>,
      <<"Circuit breaker implementation", "implement">>,
      <<"Clear scope definition, change control process, regular reviews", "review">>,
      <<"Code quality and ESLint compliance", "compliance">>,
      <<"Code quality framework", "framework">>, <<"Code review guidelines", "review">>,
      <<"Color contrast validation", "validation">>, <<"Compatibility test results", "test">>,
      <<"Competitive product", "competitive">>, <<"Competitive product", "product">>,
      <<"Complex architecture", "architecture">>, <<"Complex architecture", "complex">>,
      <<"Complex requirements", "complex">>, <<"Complex requirements", "requirements">>,
      <<"Compliance Validation", "compliance">>, <<"Compliance Validation", "validation">>,
      <<"Compliance audit", "compliance">>, <<"Compliance needs", "compliance">>,
      <<"Compliance report", "compliance">>, <<"Compliance report", "report">>,
      <<"Component Architecture", "architecture">>, <<"Component hierarchy design", "design">>,
      <<"Component library design", "design">>, <<"Component overview", "overview">>,
      <<"Conduct load testing and performance benchmarking", "load test">>,
      <<"Conduct load testing and performance benchmarking", "performance">>,
      <<"Conduct load testing and performance benchmarking", "test">>,
      <<"Conduct performance tests and validate against budgets", "budget">>,
      <<"Conduct performance tests and validate against budgets", "performance">>,
      <<"Conduct performance tests and validate against budgets", "test">>,
      <<"Conduct security testing and vulnerability assessment", "security">>,
      <<"Conduct security testing and vulnerability assessment", "test">>,
      <<"Configuration files", "file">>,
      <<"Configure development, staging, and production environments", "product">>,
      <<"Configure production infrastructure and services", "product">>,
      <<"Configure production infrastructure and services", "service">>,
      <<"Consider security from the beginning", "security">>, <<"Constraints", "constraints">>,
      <<"Constraints document", "constraints">>, <<"Constraints document", "document">>,
      <<"Container orchestration setup", "setup">>, <<"Context API", "api">>,
      <<"Continuous integration design", "design">>,
      <<"Continuous integration design", "integration">>,
      <<"Contrast audit report", "report">>, <<"Control framework", "framework">>,
      <<"Core Implementation", "implement">>, <<"Core feature implementation", "implement">>,
      <<"Core service layer implementation", "implement">>,
      <<"Core service layer implementation", "service">>, <<"Coverage report", "report">>,
      <<"Create and execute unit tests for all components", "test">>,
      <<"Create and execute unit tests for all components", "unit test">>,
      <<"Create integration timeline", "integration">>,
      <<"Create integration timeline", "timeline">>,
      <<"Create reusable Table component with full functionality", "functionality">>,
      <<"Create reusable button component with full functionality", "functionality">>,
      <<"Create reusable card component with full functionality", "functionality">>,
      <<"Create reusable login component with full functionality", "functionality">>,
      <<"Create reusable menu component with full functionality", "functionality">>,
      <<"Create reusable modal component with full functionality", "functionality">>,
      <<"Create reusable react component with full functionality", "functionality">>,
      <<"Create reusable react component with full functionality", "react">>,
      <<"Create reusable sidebar component with full functionality", "functionality">>,
      <<"Create system overview and major component structure", "overview">>,
      <<"Create testable criteria for each requirement", "criteria">>,
      <<"Create testable criteria for each requirement", "test">>,
      <<"Cross-Browser Testing", "test">>, <<"Cross-browser compatibility test", "test">>,
      <<"Data access layer implementation", "implement">>,
      <<"Data architecture design", "architecture">>, <<"Data architecture design", "design">>,
      <<"Data architecture diagram", "architecture">>,
      <<"Data encryption implementation", "encrypt">>,
      <<"Data encryption implementation", "encryption">>,
      <<"Data encryption implementation", "implement">>, <<"Data model design", "design">>,
      <<"Data validation and sanitization test", "test">>,
      <<"Data validation and sanitization test", "validation">>, <<"Database", "database">>,
      <<"Database Design & Architecture", "architecture">>,
      <<"Database Design & Architecture", "database">>,
      <<"Database Design & Architecture", "design">>,
      <<"Database deployment strategy", "database">>,
      <<"Database deployment strategy", "deploy">>, <<"Database indexes", "database">>,
      <<"Database infrastructure", "database">>,
      <<"Database integrity validation", "database">>,
      <<"Database integrity validation", "validation">>,
      <<"Database performance optimization", "database">>,
      <<"Database performance optimization", "optimization">>,
      <<"Database performance optimization", "performance">>,
      <<"Database query optimization", "database">>,
      <<"Database query optimization", "optimization">>,
      <<"Database scaling design", "database">>, <<"Database scaling design", "design">>,
      <<"Database scaling plan", "database">>, <<"Database schema", "database">>,
      <<"Database schema design", "database">>, <<"Database schema design", "design">>,
      <<"Database setup & configuration", "database">>,
      <<"Database setup & configuration", "setup">>,
      <<"Deep dive into feature specifications and user needs", "user">>,
      <<"Define acceptance criteria", "acceptance">>,
      <<"Define acceptance criteria", "acceptance criteria">>,
      <<"Define acceptance criteria", "criteria">>,
      <<"Define accessibility requirements and compliance targets", "compliance">>,
      <<"Define accessibility requirements and compliance targets", "requirements">>,
      <<"Define architecture review and governance process", "architecture">>,
      <<"Define architecture review and governance process", "review">>,
      <<"Define code quality metrics and enforcement mechanisms", "sms">>,
      <<"Define performance, security, and scalability requirements", "performance">>,
      <<"Define performance, security, and scalability requirements", "requirements">>,
      <<"Define performance, security, and scalability requirements", "scalability">>,
      <<"Define performance, security, and scalability requirements", "security">>,
      <<"Define security requirements and controls", "requirements">>,
      <<"Define security requirements and controls", "security">>, <<"Deploy", "deploy">>,
      <<"Deploy MVP to production environment", "deploy">>,
      <<"Deploy MVP to production environment", "product">>,
      <<"Deploy application to production environment", "deploy">>,
      <<"Deploy application to production environment", "product">>,
      <<"Deploy to cloud", "deploy">>, <<"Deployed application", "deploy">>,
      <<"Deployment & Infrastructure", "deploy">>, <<"Deployment & Launch", "deploy">>,
      <<"Deployment architecture", "architecture">>, <<"Deployment architecture", "deploy">>,
      <<"Deployment diagram", "deploy">>, <<"Deployment logs", "deploy">>,
      <<"Deployment procedures", "deploy">>, <<"Deployment scripts", "deploy">>,
      <<"Design", "design">>, <<"Design API rate limiting and abuse protection", "api">>,
      <<"Design API rate limiting and abuse protection", "design">>,
      <<"Design API security and access control mechanisms", "api">>,
      <<"Design API security and access control mechanisms", "design">>,
      <<"Design API security and access control mechanisms", "security">>,
      <<"Design API security and access control mechanisms", "sms">>,
      <<"Design CI/CD pipeline and quality gates", "design">>,
      <<"Design RESTful API endpoints and data contracts", "api">>,
      <<"Design RESTful API endpoints and data contracts", "design">>,
      <<"Design RESTful API endpoints and data contracts", "rest">>,
      <<"Design System Development", "design">>,
      <<"Design backup, recovery, and disaster recovery procedures", "design">>,
      <<"Design client-side state management strategy", "design">>,
      <<"Design comprehensive testing strategy across all levels", "design">>,
      <<"Design comprehensive testing strategy across all levels", "test">>,
      <<"Design consistent error responses and status codes", "design">>,
      <<"Design core user flows and interfaces", "design">>,
      <<"Design core user flows and interfaces", "user">>,
      <<"Design data migration and versioning strategy", "design">>,
      <<"Design data models and database structure", "database">>,
      <<"Design data models and database structure", "design">>,
      <<"Design data storage, flow, and management strategy", "design">>,
      <<"Design data storage, flow, and management strategy", "storage">>,
      <<"Design database scaling and partitioning strategy", "database">>,
      <<"Design database scaling and partitioning strategy", "design">>,
      <<"Design for change and evolution", "design">>,
      <<"Design for failure and recovery", "design">>,
      <<"Design for observability and debugging", "design">>,
      <<"Design for testability at all levels", "design">>,
      <<"Design for testability at all levels", "test">>,
      <<"Design high-level system architecture and component structure", "architecture">>,
      <<"Design high-level system architecture and component structure", "design">>,
      <<"Design horizontal scaling approach and auto-scaling", "design">>,
      <<"Design indexing strategy and query optimization", "design">>,
      <<"Design indexing strategy and query optimization", "optimization">>,
      <<"Design infrastructure and deployment strategy", "deploy">>,
      <<"Design infrastructure and deployment strategy", "design">>,
      <<"Design integration patterns and error handling", "design">>,
      <<"Design integration patterns and error handling", "integration">>,
      <<"Design layered security controls", "design">>,
      <<"Design layered security controls", "security">>,
      <<"Design multi-level caching strategy", "cach">>,
      <<"Design multi-level caching strategy", "caching">>,
      <<"Design multi-level caching strategy", "design">>,
      <<"Design normalized database schema and relationships", "database">>,
      <<"Design normalized database schema and relationships", "design">>,
      <<"Design performance monitoring and alerting", "design">>,
      <<"Design performance monitoring and alerting", "monitor">>,
      <<"Design performance monitoring and alerting", "performance">>,
      <<"Design request/response schemas and validation rules", "design">>,
      <<"Design request/response schemas and validation rules", "validation">>,
      <<"Design reusable UI components and patterns", "design">>,
      <<"Design security controls and threat mitigation", "design">>,
      <<"Design security controls and threat mitigation", "security">>,
      <<"Design service boundaries and communication patterns", "design">>,
      <<"Design service boundaries and communication patterns", "service">>,
      <<"Design system consistency check", "design">>,
      <<"Design test cases for all user scenarios", "design">>,
      <<"Design test cases for all user scenarios", "scenarios">>,
      <<"Design test cases for all user scenarios", "test">>,
      <<"Design test cases for all user scenarios", "user">>,
      <<"Design tests before implementation", "design">>,
      <<"Design tests before implementation", "implement">>,
      <<"Design tests before implementation", "test">>, <<"Design tokens", "design">>,
      <<"Design zero trust security architecture", "architecture">>,
      <<"Design zero trust security architecture", "design">>,
      <<"Design zero trust security architecture", "security">>,
      <<"Detailed Implementation Workflow", "implement">>,
      <<"Develop comprehensive testing strategy", "test">>,
      <<"Development environment setup", "setup">>,
      <<"Document all design decisions", "design">>,
      <<"Document all design decisions", "document">>,
      <<"Document architectural decisions and rationale", "document">>,
      <<"Document project limitations and dependencies", "document">>,
      <<"Document project limitations and dependencies", "limitations">>,
      <<"Documentation Review", "document">>, <<"Documentation Review", "review">>,
      <<"Documentation completeness review", "document">>,
      <<"Documentation completeness review", "review">>,
      <<"Documentation strategy", "document">>,
      <<"ENOENT: no such file or directory, open '", "file">>,
      <<"Early performance testing, optimization sprints, monitoring", "monitor">>,
      <<"Early performance testing, optimization sprints, monitoring", "optimization">>,
      <<"Early performance testing, optimization sprints, monitoring", "performance">>,
      <<"Early performance testing, optimization sprints, monitoring", "test">>,
      <<"Email", "email">>, <<"Encryption & data protection", "encrypt">>,
      <<"Encryption & data protection", "encryption">>,
      <<"Encryption at rest and in transit", "encrypt">>,
      <<"Encryption at rest and in transit", "encryption">>,
      <<"Encryption at rest and in transit", "rest">>, <<"Encryption utilities", "encrypt">>,
      <<"Encryption utilities", "encryption">>,
      <<"Encryption, access controls, data minimization, compliance audit", "compliance">>,
      <<"Encryption, access controls, data minimization, compliance audit", "encrypt">>,
      <<"Encryption, access controls, data minimization, compliance audit", "encryption">>,
      <<"Ensure WCAG 2.1 AA accessibility compliance", "compliance">>,
      <<"Ensure security best practices", "security">>,
      <<"Entry point inventory", "inventory">>, <<"Error handling design", "design">>,
      <<"Evaluation criteria", "criteria">>, <<"Evolving requirements", "requirements">>,
      <<"External Integrations", "external">>, <<"External Integrations", "integration">>,
      <<"Failed to parse PRD file: ", "file">>,
      <<"Failed to parse PRD file: Unsupported file type: unknown", "file">>,
      <<"Fallback mechanisms", "sms">>, <<"Feature Implementation", "implement">>,
      <<"Features", "features">>, <<"Focus on risk-based testing", "test">>,
      <<"Follow RESTful API design principles", "api">>,
      <<"Follow RESTful API design principles", "design">>,
      <<"Follow RESTful API design principles", "rest">>,
      <<"Framework/library dependency: ", "framework">>, <<"GitHub", "github">>,
      <<"GitHub Actions", "github">>, <<"GitHub client", "github">>,
      <<"Google Analytics", "analytics">>, <<"Google Analytics", "google">>,
      <<"High Technical Complexity", "complex">>, <<"High complexity", "complex">>,
      <<"High system complexity may lead to implementation challenges", "complex">>,
      <<"High system complexity may lead to implementation challenges", "implement">>,
      <<"High-level architecture design", "architecture">>,
      <<"High-level architecture design", "design">>,
      <<"Identify all stakeholders and their requirements", "requirements">>,
      <<"Identify and document all external service dependencies", "document">>,
      <<"Identify and document all external service dependencies", "external">>,
      <<"Identify and document all external service dependencies", "service">>,
      <<"Identify constraints and assumptions", "assumptions">>,
      <<"Identify constraints and assumptions", "constraints">>,
      <<"Identify minimum viable features for initial release", "features">>,
      <<"Identify technical, business, and regulatory constraints", "constraints">>,
      <<"Image optimization", "image">>, <<"Image optimization", "optimization">>,
      <<"ImageOptim", "image">>, <<"Implement", "implement">>, <<"Implement ", "implement">>,
      <<"Implement CSS architecture and build system", "architecture">>,
      <<"Implement CSS architecture and build system", "implement">>,
      <<"Implement GitHub integration", "github">>,
      <<"Implement GitHub integration", "implement">>,
      <<"Implement GitHub integration", "integration">>,
      <<"Implement REST API with authentication and PostgreSQL database integration", "api">>,
      <<"Implement REST API with authentication and PostgreSQL database integration", "auth">>,
      <<"Implement REST API with authentication and PostgreSQL database integration", "authentication">>,
      <<"Implement REST API with authentication and PostgreSQL database integration", "database">>,
      <<"Implement REST API with authentication and PostgreSQL database integration", "implement">>,
      <<"Implement REST API with authentication and PostgreSQL database integration", "integration">>,
      <<"Implement REST API with authentication and PostgreSQL database integration", "postgresql">>,
      <<"Implement REST API with authentication and PostgreSQL database integration", "rest">>,
      <<"Implement REST integration", "implement">>,
      <<"Implement REST integration", "integration">>,
      <<"Implement REST integration", "rest">>, <<"Implement Slack integration", "implement">>,
      <<"Implement Slack integration", "integration">>, <<"Implement Stripe api", "api">>,
      <<"Implement Stripe api", "implement">>, <<"Implement Stripe api", "stripe">>,
      <<"Implement Stripe integration", "implement">>,
      <<"Implement Stripe integration", "integration">>,
      <<"Implement Stripe integration", "stripe">>,
      <<"Implement Table component", "implement">>,
      <<"Implement Twilio integration", "implement">>,
      <<"Implement Twilio integration", "integration">>,
      <<"Implement a login form", "implement">>,
      <<"Implement a responsive admin dashboard with React components", "admin">>,
      <<"Implement a responsive admin dashboard with React components", "implement">>,
      <<"Implement a responsive admin dashboard with React components", "react">>,
      <<"Implement admin service", "admin">>, <<"Implement admin service", "implement">>,
      <<"Implement admin service", "service">>,
      <<"Implement admin service with full CRUD operations", "admin">>,
      <<"Implement admin service with full CRUD operations", "implement">>,
      <<"Implement admin service with full CRUD operations", "service">>,
      <<"Implement analytics service", "analytics">>,
      <<"Implement analytics service", "implement">>,
      <<"Implement analytics service", "service">>,
      <<"Implement analytics service with full CRUD operations", "analytics">>,
      <<"Implement analytics service with full CRUD operations", "implement">>,
      <<"Implement analytics service with full CRUD operations", "service">>,
      <<"Implement auth service", "auth">>, <<"Implement auth service", "implement">>,
      <<"Implement auth service", "service">>,
      <<"Implement auth service with full CRUD operations", "auth">>,
      <<"Implement auth service with full CRUD operations", "implement">>,
      <<"Implement auth service with full CRUD operations", "service">>,
      <<"Implement billing service", "billing">>, <<"Implement billing service", "implement">>,
      <<"Implement billing service", "service">>,
      <<"Implement billing service with full CRUD operations", "billing">>,
      <<"Implement billing service with full CRUD operations", "implement">>,
      <<"Implement billing service with full CRUD operations", "service">>,
      <<"Implement business logic and service layer", "implement">>,
      <<"Implement business logic and service layer", "service">>,
      <<"Implement button component", "implement">>,
      <<"Implement card component", "implement">>,
      <<"Implement centralized error handling and logging", "implement">>,
      <<"Implement circuit breaker pattern for external services", "external">>,
      <<"Implement circuit breaker pattern for external services", "implement">>,
      <<"Implement circuit breaker pattern for external services", "service">>,
      <<"Implement circuit breakers, fallback mechanisms, thorough testing", "implement">>,
      <<"Implement circuit breakers, fallback mechanisms, thorough testing", "sms">>,
      <<"Implement circuit breakers, fallback mechanisms, thorough testing", "test">>,
      <<"Implement comprehensive input validation", "implement">>,
      <<"Implement comprehensive input validation", "validation">>,
      <<"Implement comprehensive input validation and sanitization", "implement">>,
      <<"Implement comprehensive input validation and sanitization", "validation">>,
      <<"Implement comprehensive monitoring", "implement">>,
      <<"Implement comprehensive monitoring", "monitor">>,
      <<"Implement comprehensive testing", "implement">>,
      <<"Implement comprehensive testing", "test">>,
      <<"Implement customer service", "customer">>,
      <<"Implement customer service", "implement">>,
      <<"Implement customer service", "service">>,
      <<"Implement customer service with full CRUD operations", "customer">>,
      <<"Implement customer service with full CRUD operations", "implement">>,
      <<"Implement customer service with full CRUD operations", "service">>,
      <<"Implement dashboard", "implement">>,
      <<"Implement data encryption and secure storage", "encrypt">>,
      <<"Implement data encryption and secure storage", "encryption">>,
      <<"Implement data encryption and secure storage", "implement">>,
      <<"Implement data encryption and secure storage", "storage">>,
      <<"Implement database connection pooling", "database">>,
      <<"Implement database connection pooling", "implement">>,
      <<"Implement database migration and deployment strategy", "database">>,
      <<"Implement database migration and deployment strategy", "deploy">>,
      <<"Implement database migration and deployment strategy", "implement">>,
      <<"Implement database repositories and data access", "database">>,
      <<"Implement database repositories and data access", "implement">>,
      <<"Implement defense in depth strategy", "implement">>,
      <<"Implement email service", "email">>, <<"Implement email service", "implement">>,
      <<"Implement email service", "service">>,
      <<"Implement email service with full CRUD operations", "email">>,
      <<"Implement email service with full CRUD operations", "implement">>,
      <<"Implement email service with full CRUD operations", "service">>,
      <<"Implement encryption for sensitive data", "encrypt">>,
      <<"Implement encryption for sensitive data", "encryption">>,
      <<"Implement encryption for sensitive data", "implement">>,
      <<"Implement feature detection and necessary polyfills", "implement">>,
      <<"Implement file service", "file">>, <<"Implement file service", "implement">>,
      <<"Implement file service", "service">>,
      <<"Implement file service with full CRUD operations", "file">>,
      <<"Implement file service with full CRUD operations", "implement">>,
      <<"Implement file service with full CRUD operations", "service">>,
      <<"Implement health check and status endpoints", "implement">>,
      <<"Implement health checks and monitoring endpoints", "implement">>,
      <<"Implement health checks and monitoring endpoints", "monitor">>,
      <<"Implement image service", "image">>, <<"Implement image service", "implement">>,
      <<"Implement image service", "service">>,
      <<"Implement image service with full CRUD operations", "image">>,
      <<"Implement image service with full CRUD operations", "implement">>,
      <<"Implement image service with full CRUD operations", "service">>,
      <<"Implement inventory service", "implement">>,
      <<"Implement inventory service", "inventory">>,
      <<"Implement inventory service", "service">>,
      <<"Implement inventory service with full CRUD operations", "implement">>,
      <<"Implement inventory service with full CRUD operations", "inventory">>,
      <<"Implement inventory service with full CRUD operations", "service">>,
      <<"Implement login", "implement">>, <<"Implement login component", "implement">>,
      <<"Implement main application features", "features">>,
      <<"Implement main application features", "implement">>,
      <<"Implement menu component", "implement">>,
      <<"Implement mobile-first responsive design", "design">>,
      <<"Implement mobile-first responsive design", "implement">>,
      <<"Implement modal component", "implement">>,
      <<"Implement multi-level caching strategy", "cach">>,
      <<"Implement multi-level caching strategy", "caching">>,
      <<"Implement multi-level caching strategy", "implement">>,
      <<"Implement notification service", "implement">>,
      <<"Implement notification service", "notification">>,
      <<"Implement notification service", "service">>,
      <<"Implement notification service with full CRUD operations", "implement">>,
      <<"Implement notification service with full CRUD operations", "notification">>,
      <<"Implement notification service with full CRUD operations", "service">>,
      <<"Implement order service", "implement">>, <<"Implement order service", "order">>,
      <<"Implement order service", "service">>,
      <<"Implement order service with full CRUD operations", "implement">>,
      <<"Implement order service with full CRUD operations", "order">>,
      <<"Implement order service with full CRUD operations", "service">>,
      <<"Implement payment api", "api">>, <<"Implement payment api", "implement">>,
      <<"Implement payment api", "payment">>, <<"Implement payment api. Add search", "api">>,
      <<"Implement payment api. Add search", "implement">>,
      <<"Implement payment api. Add search", "payment">>,
      <<"Implement payment api. Add search", "search">>,
      <<"Implement payment integration", "implement">>,
      <<"Implement payment integration", "integration">>,
      <<"Implement payment integration", "payment">>,
      <<"Implement payment service", "implement">>, <<"Implement payment service", "payment">>,
      <<"Implement payment service", "service">>,
      <<"Implement payment service with full CRUD operations", "implement">>,
      <<"Implement payment service with full CRUD operations", "payment">>,
      <<"Implement payment service with full CRUD operations", "service">>,
      <<"Implement performance monitoring and Core Web Vitals tracking", "implement">>,
      <<"Implement performance monitoring and Core Web Vitals tracking", "monitor">>,
      <<"Implement performance monitoring and Core Web Vitals tracking", "performance">>,
      <<"Implement product service", "implement">>, <<"Implement product service", "product">>,
      <<"Implement product service", "service">>,
      <<"Implement product service with full CRUD operations", "implement">>,
      <<"Implement product service with full CRUD operations", "product">>,
      <<"Implement product service with full CRUD operations", "service">>,
      <<"Implement proper ARIA labels and semantic markup", "implement">>,
      <<"Implement proper CI/CD pipelines", "implement">>,
      <<"Implement proper abstraction layers", "implement">>,
      <<"Implement proper authentication and authorization", "auth">>,
      <<"Implement proper authentication and authorization", "authentication">>,
      <<"Implement proper authentication and authorization", "authorization">>,
      <<"Implement proper authentication and authorization", "implement">>,
      <<"Implement proper backup and recovery procedures", "implement">>,
      <<"Implement proper error boundaries and loading states", "implement">>,
      <<"Implement proper error handling and logging", "implement">>,
      <<"Implement proper focus management for keyboard users", "implement">>,
      <<"Implement proper focus management for keyboard users", "user">>,
      <<"Implement proper input validation", "implement">>,
      <<"Implement proper input validation", "validation">>,
      <<"Implement proper session management", "implement">>,
      <<"Implement rate limiting and request throttling", "implement">>,
      <<"Implement react component", "implement">>, <<"Implement react component", "react">>,
      <<"Implement report service", "implement">>, <<"Implement report service", "report">>,
      <<"Implement report service", "service">>,
      <<"Implement report service with full CRUD operations", "implement">>,
      <<"Implement report service with full CRUD operations", "report">>,
      <<"Implement report service with full CRUD operations", "service">>,
      <<"Implement response compression and optimization", "implement">>,
      <<"Implement response compression and optimization", "optimization">>,
      <<"Implement rest  with authentication and postgresql database integration service", "auth">>,
      <<"Implement rest  with authentication and postgresql database integration service", "authentication">>,
      <<"Implement rest  with authentication and postgresql database integration service", "database">>,
      <<"Implement rest  with authentication and postgresql database integration service", "implement">>,
      <<"Implement rest  with authentication and postgresql database integration service", "integration">>,
      <<"Implement rest  with authentication and postgresql database integration service", "postgresql">>,
      <<"Implement rest  with authentication and postgresql database integration service", "rest">>,
      <<"Implement rest  with authentication and postgresql database integration service", "service">>,
      <<"Implement rest  with authentication and postgresql database integration service with full CRUD operations", "auth">>,
      <<"Implement rest  with authentication and postgresql database integration service with full CRUD operations", "authentication">>,
      <<"Implement rest  with authentication and postgresql database integration service with full CRUD operations", "database">>,
      <<"Implement rest  with authentication and postgresql database integration service with full CRUD operations", "implement">>,
      <<"Implement rest  with authentication and postgresql database integration service with full CRUD operations", "integration">>,
      <<"Implement rest  with authentication and postgresql database integration service with full CRUD operations", "postgresql">>,
      <<"Implement rest  with authentication and postgresql database integration service with full CRUD operations", "rest">>,
      <<"Implement rest  with authentication and postgresql database integration service with full CRUD operations", "service">>,
      <<"Implement role-based access control", "implement">>,
      <<"Implement role-based access control and permissions", "implement">>,
      <<"Implement search", "implement">>, <<"Implement search", "search">>,
      <<"Implement search service", "implement">>, <<"Implement search service", "search">>,
      <<"Implement search service", "service">>,
      <<"Implement search service with full CRUD operations", "implement">>,
      <<"Implement search service with full CRUD operations", "search">>,
      <<"Implement search service with full CRUD operations", "service">>,
      <<"Implement secure authentication with JWT/OAuth", "auth">>,
      <<"Implement secure authentication with JWT/OAuth", "authentication">>,
      <<"Implement secure authentication with JWT/OAuth", "implement">>,
      <<"Implement security headers and protective middleware", "implement">>,
      <<"Implement security headers and protective middleware", "security">>,
      <<"Implement sidebar component", "implement">>, <<"Implement stripe api", "api">>,
      <<"Implement stripe api", "implement">>, <<"Implement stripe api", "stripe">>,
      <<"Implement stripe integration", "implement">>,
      <<"Implement stripe integration", "integration">>,
      <<"Implement stripe integration", "stripe">>,
      <<"Implement stripe service", "implement">>, <<"Implement stripe service", "service">>,
      <<"Implement stripe service", "stripe">>,
      <<"Implement stripe service with full CRUD operations", "implement">>,
      <<"Implement stripe service with full CRUD operations", "service">>,
      <<"Implement stripe service with full CRUD operations", "stripe">>,
      <<"Implement structured logging with correlation IDs", "implement">>,
      <<"Implement subscription service", "implement">>,
      <<"Implement subscription service", "service">>,
      <<"Implement subscription service", "subscription">>,
      <<"Implement subscription service with full CRUD operations", "implement">>,
      <<"Implement subscription service with full CRUD operations", "service">>,
      <<"Implement subscription service with full CRUD operations", "subscription">>,
      <<"Implement user authentication and session management", "auth">>,
      <<"Implement user authentication and session management", "authentication">>,
      <<"Implement user authentication and session management", "implement">>,
      <<"Implement user authentication and session management", "user">>,
      <<"Implement user service", "implement">>, <<"Implement user service", "service">>,
      <<"Implement user service", "user">>,
      <<"Implement user service with full CRUD operations", "implement">>,
      <<"Implement user service with full CRUD operations", "service">>,
      <<"Implement user service with full CRUD operations", "user">>,
      <<"Implementation", "implement">>, <<"Implementation Roadmap", "implement">>,
      <<"Implementation Workflow", "implement">>, <<"Implementation of ", "implement">>,
      <<"Implementation of REST API with authentication and PostgreSQL database integration feature", "api">>,
      <<"Implementation of REST API with authentication and PostgreSQL database integration feature", "auth">>,
      <<"Implementation of REST API with authentication and PostgreSQL database integration feature", "authentication">>,
      <<"Implementation of REST API with authentication and PostgreSQL database integration feature", "database">>,
      <<"Implementation of REST API with authentication and PostgreSQL database integration feature", "implement">>,
      <<"Implementation of REST API with authentication and PostgreSQL database integration feature", "integration">>,
      <<"Implementation of REST API with authentication and PostgreSQL database integration feature", "postgresql">>,
      <<"Implementation of REST API with authentication and PostgreSQL database integration feature", "rest">>,
      <<"Implementation of Stripe api feature", "api">>,
      <<"Implementation of Stripe api feature", "implement">>,
      <<"Implementation of Stripe api feature", "stripe">>,
      <<"Implementation of a login form feature", "implement">>,
      <<"Implementation of a responsive admin dashboard with React components feature", "admin">>,
      <<"Implementation of a responsive admin dashboard with React components feature", "implement">>,
      <<"Implementation of a responsive admin dashboard with React components feature", "react">>,
      <<"Implementation of dashboard feature", "implement">>,
      <<"Implementation of login feature", "implement">>,
      <<"Implementation of payment api feature", "api">>,
      <<"Implementation of payment api feature", "implement">>,
      <<"Implementation of payment api feature", "payment">>,
      <<"Implementation of search feature", "implement">>,
      <<"Implementation of search feature", "search">>,
      <<"Implementation of stripe api feature", "api">>,
      <<"Implementation of stripe api feature", "implement">>,
      <<"Implementation of stripe api feature", "stripe">>,
      <<"Implementation sequence", "implement">>,
      <<"Include performance testing", "performance">>,
      <<"Include performance testing", "test">>, <<"Infrastructure Setup", "setup">>,
      <<"Infrastructure as Code setup", "setup">>,
      <<"Infrastructure documentation", "document">>,
      <<"Input validation & sanitization", "validation">>, <<"Integrate with ", "integrate">>,
      <<"Integrate with GitHub service", "github">>,
      <<"Integrate with GitHub service", "integrate">>,
      <<"Integrate with GitHub service", "service">>,
      <<"Integrate with REST service", "integrate">>,
      <<"Integrate with REST service", "rest">>, <<"Integrate with REST service", "service">>,
      <<"Integrate with Slack service", "integrate">>,
      <<"Integrate with Slack service", "service">>,
      <<"Integrate with Stripe service", "integrate">>,
      <<"Integrate with Stripe service", "service">>,
      <<"Integrate with Stripe service", "stripe">>,
      <<"Integrate with Twilio service", "integrate">>,
      <<"Integrate with Twilio service", "service">>,
      <<"Integrate with payment service", "integrate">>,
      <<"Integrate with payment service", "payment">>,
      <<"Integrate with payment service", "service">>,
      <<"Integrate with stripe service", "integrate">>,
      <<"Integrate with stripe service", "service">>,
      <<"Integrate with stripe service", "stripe">>,
      <<"Integration architecture", "architecture">>,
      <<"Integration architecture", "integration">>,
      <<"Integration architecture design", "architecture">>,
      <<"Integration architecture design", "design">>,
      <<"Integration architecture design", "integration">>,
      <<"Integration boundaries", "integration">>,
      <<"Integration pattern compliance", "compliance">>,
      <<"Integration pattern compliance", "integration">>,
      <<"Integration patterns", "integration">>, <<"Integration points", "integration">>,
      <<"Integration roadmap", "integration">>, <<"Integration test suite", "integration">>,
      <<"Integration test suite", "integration test">>, <<"Integration test suite", "test">>,
      <<"Integration testing", "integration">>, <<"Integration testing", "integration test">>,
      <<"Integration testing", "test">>, <<"Integration tests", "integration">>,
      <<"Integration tests", "integration test">>, <<"Integration tests", "test">>,
      <<"Integration with ", "integration">>, <<"JAWS", "aws">>,
      <<"JWT or OAuth 2.0 implementation", "auth">>,
      <<"JWT or OAuth 2.0 implementation", "implement">>,
      <<"Keep security dependencies updated", "security">>,
      <<"Knowledge sharing, documentation, cross-training", "document">>,
      <<"Lazy loading implementation", "implement">>,
      <<"Legacy system inventory", "inventory">>,
      <<"Load and performance modeling", "performance">>,
      <<"Load testing and stress testing", "load test">>,
      <<"Load testing and stress testing", "test">>, <<"MVP Validation", "validation">>,
      <<"MVP deployment", "deploy">>, <<"Maintain test documentation", "document">>,
      <<"Maintain test documentation", "test">>, <<"Manual accessibility testing", "test">>,
      <<"Manual test results", "test">>,
      <<"Many tasks lack detailed descriptions", "description">>,
      <<"Map all user flows and interaction patterns", "user">>,
      <<"Map external dependencies", "external">>,
      <<"Map system boundaries and external dependencies", "external">>,
      <<"Market Changes", "market">>,
      <<"Market conditions may change during development", "market">>,
      <<"Market-driven features", "features">>, <<"Market-driven features", "market">>,
      <<"Missing acceptance criteria", "acceptance">>,
      <<"Missing acceptance criteria", "acceptance criteria">>,
      <<"Missing acceptance criteria", "criteria">>, <<"Missing test types: ", "test">>,
      <<"Mobile device testing", "test">>,
      <<"Mobile responsiveness validation", "validation">>, <<"Mobile test results", "test">>,
      <<"Model expected load patterns and performance requirements", "performance">>,
      <<"Model expected load patterns and performance requirements", "requirements">>,
      <<"Modifiability, testability, documentation", "document">>,
      <<"Modifiability, testability, documentation", "test">>, <<"MongoDB", "mongodb">>,
      <<"Monitor", "monitor">>,
      <<"Monitor application performance and user feedback", "monitor">>,
      <<"Monitor application performance and user feedback", "performance">>,
      <<"Monitor application performance and user feedback", "user">>,
      <<"Monitor security and compliance", "compliance">>,
      <<"Monitor security and compliance", "monitor">>,
      <<"Monitor security and compliance", "security">>,
      <<"Monitoring & Observability", "monitor">>,
      <<"Monitoring and alerting validation", "monitor">>,
      <<"Monitoring and alerting validation", "validation">>,
      <<"Monitoring dashboard", "monitor">>, <<"Monitoring strategy", "monitor">>,
      <<"Multiple External Integrations", "external">>,
      <<"Multiple External Integrations", "integration">>,
      <<"Multiple external integrations increase failure points", "external">>,
      <<"Multiple external integrations increase failure points", "integration">>,
      <<"Multiple integrations", "integration">>,
      <<"No authentication considerations", "auth">>,
      <<"No authentication considerations", "authentication">>,
      <<"No caching strategy mentioned", "cach">>,
      <<"No caching strategy mentioned", "caching">>,
      <<"No dedicated architecture planning phase", "architecture">>,
      <<"No dedicated testing phase", "test">>,
      <<"No documentation tasks identified", "document">>,
      <<"No encryption considerations", "encrypt">>,
      <<"No encryption considerations", "encryption">>,
      <<"No implementation phases defined", "implement">>,
      <<"No input validation mentioned", "validation">>,
      <<"No load testing planned", "load test">>, <<"No load testing planned", "test">>,
      <<"No performance monitoring planned", "monitor">>,
      <<"No performance monitoring planned", "performance">>,
      <<"No performance optimization tasks", "optimization">>,
      <<"No performance optimization tasks", "performance">>,
      <<"No scalability considerations mentioned", "scalability">>,
      <<"No security implementation tasks identified", "implement">>,
      <<"No security implementation tasks identified", "security">>,
      <<"No technology selection tasks identified", "technology">>,
      <<"No test automation mentioned", "automat">>,
      <<"No test automation mentioned", "test">>, <<"Node.js", "node">>,
      <<"Non-functional requirements", "requirements">>,
      <<"Notification setup", "notification">>, <<"Notification setup", "setup">>,
      <<"OAuth", "auth">>, <<"OAuth 2.0", "auth">>, <<"OVERVIEW", "overview">>,
      <<"OpenAPI", "api">>, <<"OpenAPI specification", "api">>,
      <<"Optimization recommendations", "optimization">>,
      <<"Optimization strategy", "optimization">>, <<"Optimize", "optimize">>,
      <<"Optimize CSS delivery and remove unused styles", "optimize">>,
      <<"Optimize JavaScript bundles and implement code splitting", "implement">>,
      <<"Optimize JavaScript bundles and implement code splitting", "optimize">>,
      <<"Optimize database queries and add proper indexing", "database">>,
      <<"Optimize database queries and add proper indexing", "optimize">>,
      <<"Optimize for Core Web Vitals performance metrics", "optimize">>,
      <<"Optimize for Core Web Vitals performance metrics", "performance">>,
      <<"Optimize for maintainability", "optimize">>,
      <<"Optimize images and implement lazy loading", "image">>,
      <<"Optimize images and implement lazy loading", "implement">>,
      <<"Optimize images and implement lazy loading", "optimize">>,
      <<"Optimized CSS", "optimize">>, <<"Optimized bundles", "optimize">>,
      <<"Optimized images", "image">>, <<"Optimized images", "optimize">>,
      <<"Optimized queries", "optimize">>, <<"Overview", "overview">>,
      <<"Payment information", "payment">>,
      <<"Perform manual testing with screen readers and keyboard navigation", "test">>,
      <<"Performance Optimization", "optimization">>,
      <<"Performance Optimization", "performance">>,
      <<"Performance Requirements", "performance">>,
      <<"Performance Requirements", "requirements">>,
      <<"Performance Validation", "performance">>, <<"Performance Validation", "validation">>,
      <<"Performance benchmark validation", "performance">>,
      <<"Performance benchmark validation", "validation">>,
      <<"Performance budget document", "budget">>,
      <<"Performance budget document", "document">>,
      <<"Performance budget document", "performance">>,
      <<"Performance budget validation", "budget">>,
      <<"Performance budget validation", "performance">>,
      <<"Performance budget validation", "validation">>,
      <<"Performance dashboards", "performance">>, <<"Performance metrics", "performance">>,
      <<"Performance monitoring", "monitor">>, <<"Performance monitoring", "performance">>,
      <<"Performance monitoring design", "design">>,
      <<"Performance monitoring design", "monitor">>,
      <<"Performance monitoring design", "performance">>,
      <<"Performance monitoring setup", "monitor">>,
      <<"Performance monitoring setup", "performance">>,
      <<"Performance monitoring setup", "setup">>,
      <<"Performance requirements definition", "performance">>,
      <<"Performance requirements definition", "requirements">>,
      <<"Performance requirements verification", "performance">>,
      <<"Performance requirements verification", "requirements">>,
      <<"Performance targets", "performance">>, <<"Performance test results", "performance">>,
      <<"Performance test results", "test">>, <<"Performance testing", "performance">>,
      <<"Performance testing", "test">>, <<"Performance validation", "performance">>,
      <<"Performance validation", "validation">>,
      <<"Performance-critical features", "features">>,
      <<"Performance-critical features", "performance">>, <<"Personal data", "personal">>,
      <<"Plan documentation and knowledge transfer strategy", "document">>,
      <<"Plan for anticipated future requirements and capabilities", "requirements">>,
      <<"Plan for failure and implement circuit breakers", "implement">>,
      <<"Plan incremental delivery milestones and MVPs", "milestones">>,
      <<"Plan integration sequence and test strategies", "integration">>,
      <<"Plan integration sequence and test strategies", "test">>,
      <<"Plan team organization around architectural components", "team">>,
      <<"Post-deployment monitoring", "deploy">>, <<"Post-deployment monitoring", "monitor">>,
      <<"PostgreSQL", "postgresql">>, <<"Production deployment", "deploy">>,
      <<"Production deployment", "product">>, <<"Production environment setup", "product">>,
      <<"Production environment setup", "setup">>,
      <<"Proper security headers implementation", "implement">>,
      <<"Proper security headers implementation", "security">>,
      <<"Props interface design", "design">>,
      <<"QA workflow should have comprehensive testing strategy", "test">>,
      <<"Quality attribute scenarios", "scenarios">>, <<"Quality framework", "framework">>,
      <<"Query optimization plan", "optimization">>, <<"REST", "rest">>,
      <<"REST API with authentication and PostgreSQL database integration", "api">>,
      <<"REST API with authentication and PostgreSQL database integration", "auth">>,
      <<"REST API with authentication and PostgreSQL database integration", "authentication">>,
      <<"REST API with authentication and PostgreSQL database integration", "database">>,
      <<"REST API with authentication and PostgreSQL database integration", "integration">>,
      <<"REST API with authentication and PostgreSQL database integration", "postgresql">>,
      <<"REST API with authentication and PostgreSQL database integration", "rest">>,
      <<"REST client", "rest">>, <<"Rapid Development", "api">>,
      <<"Rate limiting & throttling design", "design">>, <<"React", "react">>,
      <<"Redis", "redis">>,
      <<"Reduce scope, parallel development, additional resources", "resources">>,
      <<"Refactoring schedule", "schedule">>,
      <<"Regular market analysis, flexible architecture, MVP approach", "architecture">>,
      <<"Regular market analysis, flexible architecture, MVP approach", "market">>,
      <<"Regular security testing and audits", "security">>,
      <<"Regular security testing and audits", "test">>,
      <<"Requirements Analysis", "requirements">>,
      <<"Requirements Validation", "requirements">>,
      <<"Requirements Validation", "validation">>, <<"Requirements matrix", "requirements">>,
      <<"Requirements may expand during development", "requirements">>,
      <<"Requirements traceability", "requirements">>,
      <<"Requirements validation", "requirements">>,
      <<"Requirements validation", "validation">>, <<"Research", "search">>,
      <<"Research and evaluate technology options", "search">>,
      <<"Research and evaluate technology options", "technology">>,
      <<"Resources", "resources">>, <<"Review process", "review">>,
      <<"Risk assessment and mitigation validation", "validation">>,
      <<"Run automated accessibility audits and fix issues", "automat">>,
      <<"Scalability & Performance Planning", "performance">>,
      <<"Scalability & Performance Planning", "scalability">>,
      <<"Scalability requirements", "requirements">>,
      <<"Scalability requirements", "scalability">>,
      <<"Scalability requirements validation", "requirements">>,
      <<"Scalability requirements validation", "scalability">>,
      <<"Scalability requirements validation", "validation">>,
      <<"Scalability, monitoring, caching, encryption, auth, validation, load test, unit test, integration test, e2e test automation, API docs", "api">>,
      <<"Scalability, monitoring, caching, encryption, auth, validation, load test, unit test, integration test, e2e test automation, API docs", "api doc">>,
      <<"Scalability, monitoring, caching, encryption, auth, validation, load test, unit test, integration test, e2e test automation, API docs", "auth">>,
      <<"Scalability, monitoring, caching, encryption, auth, validation, load test, unit test, integration test, e2e test automation, API docs", "automat">>,
      <<"Scalability, monitoring, caching, encryption, auth, validation, load test, unit test, integration test, e2e test automation, API docs", "cach">>,
      <<"Scalability, monitoring, caching, encryption, auth, validation, load test, unit test, integration test, e2e test automation, API docs", "caching">>,
      <<"Scalability, monitoring, caching, encryption, auth, validation, load test, unit test, integration test, e2e test automation, API docs", "e2e test">>,
      <<"Scalability, monitoring, caching, encryption, auth, validation, load test, unit test, integration test, e2e test automation, API docs", "encrypt">>,
      <<"Scalability, monitoring, caching, encryption, auth, validation, load test, unit test, integration test, e2e test automation, API docs", "encryption">>,
      <<"Scalability, monitoring, caching, encryption, auth, validation, load test, unit test, integration test, e2e test automation, API docs", "integration">>,
      <<"Scalability, monitoring, caching, encryption, auth, validation, load test, unit test, integration test, e2e test automation, API docs", "integration test">>,
      <<"Scalability, monitoring, caching, encryption, auth, validation, load test, unit test, integration test, e2e test automation, API docs", "load test">>,
      <<"Scalability, monitoring, caching, encryption, auth, validation, load test, unit test, integration test, e2e test automation, API docs", "monitor">>,
      <<"Scalability, monitoring, caching, encryption, auth, validation, load test, unit test, integration test, e2e test automation, API docs", "scalability">>,
      <<"Scalability, monitoring, caching, encryption, auth, validation, load test, unit test, integration test, e2e test automation, API docs", "test">>,
      <<"Scalability, monitoring, caching, encryption, auth, validation, load test, unit test, integration test, e2e test automation, API docs", "unit test">>,
      <<"Scalability, monitoring, caching, encryption, auth, validation, load test, unit test, integration test, e2e test automation, API docs", "validation">>,
      <<"Secure storage", "storage">>, <<"Security", "security">>,
      <<"Security Architecture Design", "architecture">>,
      <<"Security Architecture Design", "design">>,
      <<"Security Architecture Design", "security">>, <<"Security Assessment", "security">>,
      <<"Security Implementation", "implement">>, <<"Security Implementation", "security">>,
      <<"Security Testing", "security">>, <<"Security Testing", "test">>,
      <<"Security architecture", "architecture">>, <<"Security architecture", "security">>,
      <<"Security architecture review", "architecture">>,
      <<"Security architecture review", "review">>,
      <<"Security architecture review", "security">>, <<"Security assessment", "security">>,
      <<"Security audit", "security">>, <<"Security configuration", "security">>,
      <<"Security headers & middleware", "security">>,
      <<"Security implementation errors could expose system", "implement">>,
      <<"Security implementation errors could expose system", "security">>,
      <<"Security layers", "security">>, <<"Security middleware", "security">>,
      <<"Security policies", "security">>, <<"Security requirements", "requirements">>,
      <<"Security requirements", "security">>,
      <<"Security requirements definition", "requirements">>,
      <<"Security requirements definition", "security">>,
      <<"Security review, penetration testing, security training", "review">>,
      <<"Security review, penetration testing, security training", "security">>,
      <<"Security review, penetration testing, security training", "test">>,
      <<"Security test results", "security">>, <<"Security test results", "test">>,
      <<"Security vulnerability assessment", "security">>,
      <<"Security vulnerability testing", "security">>,
      <<"Security vulnerability testing", "test">>, <<"SecurityPersona", "security">>,
      <<"Select development, testing, and deployment tools", "deploy">>,
      <<"Select development, testing, and deployment tools", "test">>,
      <<"Select frameworks, libraries, and platform technologies", "framework">>,
      <<"Service Implementation", "implement">>, <<"Service Implementation", "service">>,
      <<"Service classes", "service">>,
      <<"Set performance budgets and optimization targets", "budget">>,
      <<"Set performance budgets and optimization targets", "optimization">>,
      <<"Set performance budgets and optimization targets", "performance">>,
      <<"Set up alerting for critical issues and performance thresholds", "performance">>,
      <<"Set up application performance monitoring", "monitor">>,
      <<"Set up application performance monitoring", "performance">>,
      <<"Set up continuous integration and deployment pipeline", "deploy">>,
      <<"Set up continuous integration and deployment pipeline", "integration">>,
      <<"Set up database infrastructure and configurations", "database">>,
      <<"Set up infrastructure automation with Terraform/CloudFormation", "automat">>,
      <<"Setup", "setup">>, <<"State architecture", "architecture">>,
      <<"State management architecture", "architecture">>, <<"Status monitoring", "monitor">>,
      <<"Storybook stories", "stories">>,
      <<"Strict performance requirements may be challenging to meet", "performance">>,
      <<"Strict performance requirements may be challenging to meet", "requirements">>,
      <<"Stripe", "stripe">>, <<"Stripe api", "api">>, <<"Stripe api", "stripe">>,
      <<"Stripe client", "stripe">>, <<"Structured logging implementation", "implement">>,
      <<"System architecture design", "architecture">>,
      <<"System architecture design", "design">>,
      <<"System architecture diagram", "architecture">>,
      <<"System design consistency check", "design">>, <<"Team structure planning", "team">>,
      <<"Team topology", "team">>, <<"Technical Requirements", "requirements">>,
      <<"Technical Requirements", "technical requirements">>,
      <<"Technology Selection & Standards", "technology">>,
      <<"Technology comparison matrix", "technology">>,
      <<"Technology decisions document", "document">>,
      <<"Technology decisions document", "technology">>,
      <<"Technology landscape analysis", "technology">>,
      <<"Technology stack document", "document">>,
      <<"Technology stack document", "technology">>,
      <<"Technology stack selection", "technology">>, <<"Test", "test">>,
      <<"Test Strategy & Planning", "test">>,
      <<"Test across multiple browsers and devices", "test">>,
      <<"Test automation plan", "automat">>, <<"Test automation plan", "test">>,
      <<"Test case design", "design">>, <<"Test case design", "test">>,
      <<"Test case repository", "test">>,
      <<"Test component interactions and API integrations", "api">>,
      <<"Test component interactions and API integrations", "integration">>,
      <<"Test component interactions and API integrations", "test">>,
      <<"Test early and often", "test">>, <<"Test edge cases and error conditions", "test">>,
      <<"Test functionality across major browsers and versions", "functionality">>,
      <<"Test functionality across major browsers and versions", "test">>,
      <<"Test pyramid design", "design">>, <<"Test pyramid design", "test">>,
      <<"Test responsive behavior on various mobile devices", "test">>,
      <<"Test strategy development", "test">>, <<"Test strategy document", "document">>,
      <<"Test strategy document", "test">>, <<"Testing & Validation", "test">>,
      <<"Testing & Validation", "validation">>, <<"Testing Strategy", "test">>,
      <<"Testing strategy", "test">>, <<"Testing strategy design", "design">>,
      <<"Testing strategy design", "test">>, <<"Timeline", "timeline">>,
      <<"Timeline may be too aggressive for scope of work", "timeline">>,
      <<"Unit test suite", "test">>, <<"Unit test suite", "unit test">>,
      <<"Unit testing implementation", "implement">>,
      <<"Unit testing implementation", "test">>,
      <<"Unit testing implementation", "unit test">>, <<"Unit tests", "test">>,
      <<"Unit tests", "unit test">>, <<"Unsupported file type: ", "file">>,
      <<"Use connection pooling for database connections", "database">>,
      <<"Use database transactions for data consistency", "database">>,
      <<"Use encryption for data at rest and in transit", "encrypt">>,
      <<"Use encryption for data at rest and in transit", "encryption">>,
      <<"Use encryption for data at rest and in transit", "rest">>,
      <<"User Stories", "stories">>, <<"User Stories", "user">>,
      <<"User Stories", "user stories">>, <<"User acceptance testing", "acceptance">>,
      <<"User acceptance testing", "acceptance test">>, <<"User acceptance testing", "test">>,
      <<"User acceptance testing", "user">>, <<"User can ", "user">>,
      <<"User can REST API with authentication and PostgreSQL database integration", "api">>,
      <<"User can REST API with authentication and PostgreSQL database integration", "auth">>,
      <<"User can REST API with authentication and PostgreSQL database integration", "authentication">>,
      <<"User can REST API with authentication and PostgreSQL database integration", "database">>,
      <<"User can REST API with authentication and PostgreSQL database integration", "integration">>,
      <<"User can REST API with authentication and PostgreSQL database integration", "postgresql">>,
      <<"User can REST API with authentication and PostgreSQL database integration", "rest">>,
      <<"User can REST API with authentication and PostgreSQL database integration", "user">>,
      <<"User can Stripe api", "api">>, <<"User can Stripe api", "stripe">>,
      <<"User can Stripe api", "user">>, <<"User can a login form", "user">>,
      <<"User can a responsive admin dashboard with React components", "admin">>,
      <<"User can a responsive admin dashboard with React components", "react">>,
      <<"User can a responsive admin dashboard with React components", "user">>,
      <<"User can dashboard", "user">>, <<"User can login", "user">>,
      <<"User can payment api", "api">>, <<"User can payment api", "payment">>,
      <<"User can payment api", "user">>, <<"User can search", "search">>,
      <<"User can search", "user">>, <<"User can stripe api", "api">>,
      <<"User can stripe api", "stripe">>, <<"User can stripe api", "user">>,
      <<"User data", "user">>, <<"User data", "user data">>,
      <<"User experience, accessibility, learnability", "user">>,
      <<"User journey mapping", "user">>, <<"User journey maps", "user">>,
      <<"User-story", "user">>,
      <<"Validate against security compliance requirements", "compliance">>,
      <<"Validate against security compliance requirements", "requirements">>,
      <<"Validate against security compliance requirements", "security">>,
      <<"Validate core functionality with target users", "functionality">>,
      <<"Validate core functionality with target users", "user">>,
      <<"Validate functionality against acceptance criteria", "acceptance">>,
      <<"Validate functionality against acceptance criteria", "acceptance criteria">>,
      <<"Validate functionality against acceptance criteria", "criteria">>,
      <<"Validate functionality against acceptance criteria", "functionality">>,
      <<"Validation middleware", "validation">>, <<"Validation specifications", "validation">>,
      <<"Visual regression testing", "test">>, <<"Vue", "vue">>,
      <<"Vulnerability report", "report">>, <<"WCAG compliance plan", "compliance">>,
      <<"WebPageTest", "test">>, <<"Zero trust architecture design", "architecture">>,
      <<"Zero trust architecture design", "design">>,
      <<"Zero-downtime deployment capability", "deploy">>,
      <<"a responsive admin dashboard with React components", "admin">>,
      <<"a responsive admin dashboard with React components", "react">>,
      <<"a responsive admin dashboard with react components", "admin">>,
      <<"a responsive admin dashboard with react components", "react">>,
      <<"acceptance", "acceptance">>, <<"acceptance criteria", "acceptance">>,
      <<"acceptance criteria", "acceptance criteria">>, <<"acceptance criteria", "criteria">>,
      <<"acceptance test", "acceptance">>, <<"acceptance test", "acceptance test">>,
      <<"acceptance test", "test">>, <<"acceptanceCriteria", "acceptance">>,
      <<"acceptanceCriteria", "criteria">>, <<"add stripe api", "api">>,
      <<"add stripe api", "stripe">>, <<"add stripe api. add stripe api", "api">>,
      <<"add stripe api. add stripe api", "stripe">>, <<"admin", "admin">>,
      <<"admin service", "admin">>, <<"admin service", "service">>,
      <<"administrator", "admin">>, <<"advanced", "advanced">>, <<"analytics", "analytics">>,
      <<"analytics service", "analytics">>, <<"analytics service", "service">>,
      <<"analyzeComplexity", "complex">>, <<"angular", "angular">>, <<"api", "api">>,
      <<"api doc", "api">>, <<"api doc", "api doc">>, <<"api keys", "api">>,
      <<"api-design", "api">>, <<"api-design", "design">>, <<"architecture", "architecture">>,
      <<"assumptions", "assumptions">>, <<"auth", "auth">>, <<"auth service", "auth">>,
      <<"auth service", "service">>, <<"authentication", "auth">>,
      <<"authentication", "authentication">>, <<"authorization", "auth">>,
      <<"authorization", "authorization">>, <<"automat", "automat">>, <<"aws", "aws">>,
      <<"banking", "banking">>, <<"billing", "billing">>, <<"billing service", "billing">>,
      <<"billing service", "service">>, <<"budget", "budget">>,
      <<"build a responsive admin dashboard with react components, charts, and mobile-friendly design", "admin">>,
      <<"build a responsive admin dashboard with react components, charts, and mobile-friendly design", "design">>,
      <<"build a responsive admin dashboard with react components, charts, and mobile-friendly design", "react">>,
      <<"cach", "cach">>, <<"cache", "cach">>, <<"caching", "cach">>, <<"caching", "caching">>,
      <<"competitive", "competitive">>, <<"complex", "complex">>, <<"complexity", "complex">>,
      <<"compliance", "compliance">>, <<"constraints", "constraints">>,
      <<"context api", "api">>, <<"createAPIDesignPhase", "api">>,
      <<"createAPIDesignPhase", "design">>, <<"createAccessibilityTestingPhase", "test">>,
      <<"createArchitecturalDesignPhase", "design">>,
      <<"createArchitecturePlanningPhase", "architecture">>,
      <<"createAuthenticationImplementationPhase", "auth">>,
      <<"createAuthenticationImplementationPhase", "authentication">>,
      <<"createAuthenticationImplementationPhase", "implement">>,
      <<"createAutomationPhase", "automat">>,
      <<"createComplianceValidationPhase", "compliance">>,
      <<"createComplianceValidationPhase", "validation">>,
      <<"createComponentArchitecturePhase", "architecture">>,
      <<"createCrossBrowserTestingPhase", "test">>,
      <<"createDatabaseDesignPhase", "database">>, <<"createDatabaseDesignPhase", "design">>,
      <<"createDeploymentPhase", "deploy">>, <<"createDeploymentPlanningPhase", "deploy">>,
      <<"createDesignSystemPhase", "design">>, <<"createImplementationPhases", "implement">>,
      <<"createImplementationRoadmapPhase", "implement">>,
      <<"createIntegrationPhase", "integration">>, <<"createMonitoringPhase", "monitor">>,
      <<"createPerformanceOptimizationPhase", "optimization">>,
      <<"createPerformanceOptimizationPhase", "performance">>,
      <<"createQualityValidationPhase", "validation">>,
      <<"createRequirementsAnalysisPhase", "requirements">>,
      <<"createScalabilityPlanningPhase", "scalability">>,
      <<"createSecurityArchitecturePhase", "architecture">>,
      <<"createSecurityArchitecturePhase", "security">>,
      <<"createSecurityImplementationPhase", "implement">>,
      <<"createSecurityImplementationPhase", "security">>,
      <<"createSecurityTestingPhase", "security">>, <<"createSecurityTestingPhase", "test">>,
      <<"createServiceImplementationPhase", "implement">>,
      <<"createServiceImplementationPhase", "service">>,
      <<"createTechnologySelectionPhase", "technology">>,
      <<"createTestImplementationPhase", "implement">>,
      <<"createTestImplementationPhase", "test">>, <<"createTestStrategyPhase", "test">>,
      <<"createTestingStrategyPhase", "test">>, <<"criteria", "criteria">>,
      <<"customer", "customer">>, <<"customer service", "customer">>,
      <<"customer service", "service">>, <<"customer-facing", "customer">>,
      <<"customer-facing", "customer-facing">>, <<"database", "database">>,
      <<"deploy", "deploy">>, <<"deploy to cloud", "deploy">>, <<"deployment", "deploy">>,
      <<"description", "description">>, <<"design", "design">>, <<"design-system", "design">>,
      <<"designDecisions", "design">>, <<"designTokens", "design">>,
      <<"detectFileType", "file">>, <<"distributed", "distributed">>,
      <<"document", "document">>, <<"documentation", "document">>,
      <<"documentationPatterns", "document">>, <<"e2e test", "e2e test">>,
      <<"e2e test", "test">>, <<"email", "email">>, <<"email service", "email">>,
      <<"email service", "service">>, <<"encrypt", "encrypt">>, <<"encryption", "encrypt">>,
      <<"encryption", "encryption">>, <<"enterprise", "enterprise">>, <<"express", "express">>,
      <<"express-rate-limit", "express">>, <<"express-validator", "express">>,
      <<"external", "external">>, <<"external-service", "external">>,
      <<"external-service", "service">>, <<"extractAcceptanceCriteria", "acceptance">>,
      <<"extractAcceptanceCriteria", "criteria">>, <<"extractComplexity", "complex">>,
      <<"extractFeatures", "features">>, <<"extractIntegrations", "integration">>,
      <<"extractPerformanceRequirements", "performance">>,
      <<"extractPerformanceRequirements", "requirements">>,
      <<"extractRequirements", "requirements">>, <<"extractResources", "resources">>,
      <<"extractScalabilityRequirements", "requirements">>,
      <<"extractScalabilityRequirements", "scalability">>,
      <<"extractSecurityRequirements", "requirements">>,
      <<"extractSecurityRequirements", "security">>, <<"extractTimeline", "timeline">>,
      <<"extractUserRoles", "user">>, <<"facebook", "facebook">>, <<"fast", "fast">>,
      <<"feature implementation", "implement">>, <<"features", "features">>,
      <<"file", "file">>, <<"file service", "file">>, <<"file service", "service">>,
      <<"financial", "financial">>, <<"framework", "framework">>,
      <<"functionality", "functionality">>, <<"github", "github">>,
      <<"github actions", "github">>, <<"google", "google">>,
      <<"google analytics", "analytics">>, <<"google analytics", "google">>,
      <<"graphql", "graphql">>, <<"image", "image">>, <<"image service", "image">>,
      <<"image service", "service">>, <<"imageoptim", "image">>, <<"implement", "implement">>,
      <<"implement payment api", "api">>, <<"implement payment api", "implement">>,
      <<"implement payment api", "payment">>, <<"implement payment api. add search", "api">>,
      <<"implement payment api. add search", "implement">>,
      <<"implement payment api. add search", "payment">>,
      <<"implement payment api. add search", "search">>,
      <<"implement rest api with authentication and postgresql database integration", "api">>,
      <<"implement rest api with authentication and postgresql database integration", "auth">>,
      <<"implement rest api with authentication and postgresql database integration", "authentication">>,
      <<"implement rest api with authentication and postgresql database integration", "database">>,
      <<"implement rest api with authentication and postgresql database integration", "implement">>,
      <<"implement rest api with authentication and postgresql database integration", "integration">>,
      <<"implement rest api with authentication and postgresql database integration", "postgresql">>,
      <<"implement rest api with authentication and postgresql database integration", "rest">>,
      <<"implementation", "implement">>, <<"implementation workflow", "implement">>,
      <<"inputValidation", "validation">>, <<"integrate", "integrate">>,
      <<"integration", "integration">>, <<"integration test", "integration">>,
      <<"integration test", "integration test">>, <<"integration test", "test">>,
      <<"integrations", "integration">>, <<"inventory", "inventory">>,
      <<"inventory service", "inventory">>, <<"inventory service", "service">>,
      <<"isTestable", "test">>, <<"jaws", "aws">>, <<"latest", "test">>,
      <<"limitations", "limitations">>, <<"load test", "load test">>, <<"load test", "test">>,
      <<"market", "market">>, <<"memcached", "cach">>, <<"microservices", "microservices">>,
      <<"microservices", "service">>, <<"milestones", "milestones">>, <<"mongodb", "mongodb">>,
      <<"monitor", "monitor">>, <<"monitoring", "monitor">>, <<"node", "node">>,
      <<"node-cache", "cach">>, <<"node-cache", "node">>, <<"node-circuit-breaker", "node">>,
      <<"node-forge", "node">>, <<"notification", "notification">>,
      <<"notification service", "notification">>, <<"notification service", "service">>,
      <<"oauth", "auth">>, <<"oauth 2.0", "auth">>, <<"openapi", "api">>,
      <<"operationalRequirements", "requirements">>, <<"optimization", "optimization">>,
      <<"optimize", "optimize">>, <<"order", "order">>, <<"order service", "order">>,
      <<"order service", "service">>, <<"overview", "overview">>,
      <<"parseAcceptanceCriteria", "acceptance">>, <<"parseAcceptanceCriteria", "criteria">>,
      <<"parseConstraints", "constraints">>, <<"parseDescription", "description">>,
      <<"parseFeaturesList", "features">>, <<"parseFile", "file">>,
      <<"parseResources", "resources">>, <<"parseTechnicalRequirements", "requirements">>,
      <<"parseTimeline", "timeline">>, <<"parseUserStories", "stories">>,
      <<"parseUserStories", "user">>, <<"payment", "payment">>, <<"payment api", "api">>,
      <<"payment api", "payment">>, <<"payment client", "payment">>,
      <<"payment service", "payment">>, <<"payment service", "service">>,
      <<"paypal", "paypal">>, <<"performance", "performance">>,
      <<"performanceBudgets", "budget">>, <<"performanceBudgets", "performance">>,
      <<"performanceTargets", "performance">>, <<"personal", "personal">>, <<"pii", "pii">>,
      <<"postgresql", "postgresql">>, <<"privacy", "privacy">>, <<"product", "product">>,
      <<"product service", "product">>, <<"product service", "service">>,
      <<"public", "public">>, <<"react", "react">>, <<"react component", "react">>,
      <<"react-lazyload", "react">>, <<"real-time", "real-time">>, <<"realtime", "realtime">>,
      <<"redis", "redis">>, <<"report", "report">>, <<"report service", "report">>,
      <<"report service", "service">>, <<"requirements", "requirements">>,
      <<"research", "search">>, <<"resources", "resources">>, <<"rest", "rest">>,
      <<"rest  with authentication and postgresql database integration", "auth">>,
      <<"rest  with authentication and postgresql database integration", "authentication">>,
      <<"rest  with authentication and postgresql database integration", "database">>,
      <<"rest  with authentication and postgresql database integration", "integration">>,
      <<"rest  with authentication and postgresql database integration", "postgresql">>,
      <<"rest  with authentication and postgresql database integration", "rest">>,
      <<"rest  with authentication and postgresql database integration service", "auth">>,
      <<"rest  with authentication and postgresql database integration service", "authentication">>,
      <<"rest  with authentication and postgresql database integration service", "database">>,
      <<"rest  with authentication and postgresql database integration service", "integration">>,
      <<"rest  with authentication and postgresql database integration service", "postgresql">>,
      <<"rest  with authentication and postgresql database integration service", "rest">>,
      <<"rest  with authentication and postgresql database integration service", "service">>,
      <<"rest api with authentication and postgresql database integration", "api">>,
      <<"rest api with authentication and postgresql database integration", "auth">>,
      <<"rest api with authentication and postgresql database integration", "authentication">>,
      <<"rest api with authentication and postgresql database integration", "database">>,
      <<"rest api with authentication and postgresql database integration", "integration">>,
      <<"rest api with authentication and postgresql database integration", "postgresql">>,
      <<"rest api with authentication and postgresql database integration", "rest">>,
      <<"review", "review">>, <<"scalability", "scalability">>, <<"scalable", "scalable">>,
      <<"scenarios", "scenarios">>, <<"schedule", "schedule">>, <<"search", "search">>,
      <<"search service", "search">>, <<"search service", "service">>,
      <<"security", "security">>, <<"security audit", "security">>,
      <<"security-analysis", "security">>, <<"security-design", "design">>,
      <<"security-design", "security">>, <<"security-implementation", "implement">>,
      <<"security-implementation", "security">>, <<"security-testing", "security">>,
      <<"security-testing", "test">>, <<"security-validation", "security">>,
      <<"security-validation", "validation">>, <<"securityHeaders", "security">>,
      <<"securityRequirements", "requirements">>, <<"securityRequirements", "security">>,
      <<"service", "service">>, <<"setup", "setup">>, <<"sms", "sms">>,
      <<"sophisticated", "sophisticated">>, <<"speed", "speed">>, <<"storage", "storage">>,
      <<"stories", "stories">>, <<"stripe", "stripe">>, <<"stripe api", "api">>,
      <<"stripe api", "stripe">>, <<"stripe client", "stripe">>,
      <<"stripe service", "service">>, <<"stripe service", "stripe">>,
      <<"subscription", "subscription">>, <<"subscription service", "service">>,
      <<"subscription service", "subscription">>, <<"summary", "summary">>, <<"team", "team">>,
      <<"team-skill", "team">>, <<"technical requirements", "requirements">>,
      <<"technical requirements", "technical requirements">>,
      <<"technical specs", "technical specs">>, <<"technology", "technology">>,
      <<"test", "test">>, <<"test-planning", "test">>, <<"testing", "test">>,
      <<"testingInsights", "test">>, <<"timeline", "timeline">>, <<"twitter", "twitter">>,
      <<"unit test", "test">>, <<"unit test", "unit test">>, <<"user", "user">>,
      <<"user data", "user">>, <<"user data", "user data">>, <<"user service", "service">>,
      <<"user service", "user">>, <<"user stories", "stories">>, <<"user stories", "user">>,
      <<"user stories", "user stories">>, <<"user-story", "user">>, <<"userRoles", "user">>,
      <<"userStories", "stories">>, <<"userStories", "user">>, <<"ux-design", "design">>,
      <<"validation", "validation">>, <<"vue", "vue">>, <<"webpagetest", "test">>,
      <<"websocket", "websocket">>, <<"week", "week">>, <<"weekly", "week">> }

lowerIncludes(s, sub) == <<s, sub>> \in IncludesTable

\* the keys of the object the parser returns, as JSON.stringify prints them
RequirementKeys ==
    { "title", "overview", "features", "components", "integrations", "userRoles",
      "pages", "complexity", "domains", "patterns", "requirements", "realtime",
      "responsive", "authentication", "database", "api", "testing", "deployment",
      "monitoring", "security", "performance", "acceptanceCriteria", "timeline",
      "resources", "name", "priority", "urgency", "skills" }

\* the keys and the string values inside JSON.stringify(requirements)
stringify(r) ==
    RequirementKeys \cup ({r.title, r.overview} \ {""})
    \cup {r.features[i].name : i \in 1..Len(r.features)}
    \cup {r.features[i].priority : i \in 1..Len(r.features)}
    \cup Range(r.components) \cup Range(r.integrations)
    \cup Range(r.userRoles) \cup Range(r.pages)
    \cup r.domains \cup r.patterns

\* Set.prototype.add on a Set kept in insertion order
SetAdd(s, x) == IF x \in Range(s) THEN s ELSE Append(s, x)

(***************************************************************************)
(* FrontendPersona: the component phase                                    *)
(***************************************************************************)
estimateComponentHours(component) ==
    IF toLowerCase(component) \in {"table", "chart", "calendar", "form", "navigation"} THEN 12
    ELSE IF toLowerCase(component) \in {"button", "input", "badge", "tag", "avatar"} THEN 4
    ELSE 8

\* requirements.components is an array for every parsed input, so the
\* fallback to extractUIComponents is never taken
createComponentArchitecturePhase(r) ==
    LET components == Slice(r.components, 5)
    IN  Phase("Component Architecture", "architecture", "3-5 days",
            << Task("design", "Component hierarchy design",
                    "Define component structure and relationships", <<>>, 6,
                    <<"Component tree", "Props interface design">>),
               Task("design", "State management architecture",
                    "Design client-side state management strategy",
                    <<"Redux", "Context API", "Zustand">>, 8,
                    <<"State architecture", "Data flow diagrams">>),
               Task("setup", "Development environment setup",
                    "Configure development tools and build pipeline",
                    <<"Vite", "Webpack", "ESLint", "Prettier">>, 4,
                    <<"Dev environment", "Build configuration">>) >>
            \o [i \in 1..Len(components) |->
                  Task("implement", "Implement " \o components[i] \o " component",
                       "Create reusable " \o components[i]
                           \o " component with full functionality",
                       <<>>, estimateComponentHours(components[i]),
                       <<components[i] \o " component", "Unit tests",
                         "Storybook stories">>)])

(***************************************************************************)
(* BackendPersona: the service and integration phases                      *)
(***************************************************************************)
servicePatterns ==
    << "user", "auth", "payment", "order", "product", "inventory", "notification",
       "email", "file", "image", "search", "analytics", "report", "admin",
       "customer", "billing", "subscription" >>

\* featureName.replace(/service|api/g, '').trim()
stripServiceApi(name) ==
    CASE name = "payment api" -> "payment"
      [] name = "stripe api" -> "stripe"
      [] name = "rest api with authentication and postgresql database integration" ->
             "rest  with authentication and postgresql database integration"
      [] OTHER -> name

RECURSIVE addFeatureServices(_, _)
addFeatureServices(services, features) ==
    IF features = <<>> THEN services
    ELSE LET featureName == toLowerCase(Head(features).name)
         IN  addFeatureServices(
                 IF lowerIncludes(featureName, "service") \/ lowerIncludes(featureName, "api")
                     THEN SetAdd(services, stripServiceApi(featureName))
                     ELSE services,
                 Tail(features))

extractServices(r) ==
    addFeatureServices(
        SelectSeq(servicePatterns, LAMBDA p : \E w \in stringify(r) : lowerIncludes(w, p)),
        r.features)

estimateServiceHours(service) ==
    IF service \in {"payment", "auth", "search", "analytics", "notification"} THEN 16
    ELSE IF service \in {"user", "product", "file", "image"} THEN 8
    ELSE 12

createServiceImplementationPhase(r) ==
    LET services == Slice(extractServices(r), 5)
    IN  Phase("Service Implementation", "implementation", "2-4 weeks",
            << Task("setup", "Project structure & dependencies",
                    "Set up project structure and install dependencies", <<>>, 4,
                    <<"Project structure", "Package configuration">>),
               Task("implement", "Core service layer implementation",
                    "Implement business logic and service layer", <<>>, 20,
                    <<"Service classes", "Business logic">>),
               Task("implement", "Data access layer implementation",
                    "Implement database repositories and data access",
                    <<"Sequelize", "TypeORM", "Mongoose">>, 16,
                    <<"Repository pattern", "Data access layer">>) >>
            \o [i \in 1..Len(services) |->
                  Task("implement", "Implement " \o services[i] \o " service",
                       "Implement " \o services[i] \o " service with full CRUD operations",
                       <<>>, estimateServiceHours(services[i]),
                       <<services[i] \o " service", "API endpoints", "Unit tests">>)]
            \o << Task("implement", "Error handling & logging",
                       "Implement centralized error handling and logging",
                       <<"winston", "morgan", "sentry">>, 6,
                       <<"Error middleware", "Logging system">>) >>)

\* the phase createIntegrationPhase returns when there are integrations
createIntegrationPhase(r) ==
    LET integrations == Slice(r.integrations, 3)
    IN  Phase("External Integrations", "integration", "1-2 weeks",
            << Task("design", "Integration architecture design",
                    "Design integration patterns and error handling", <<>>, 6,
                    <<"Integration architecture", "Error handling strategy">>) >>
            \o [i \in 1..Len(integrations) |->
                  Task("implement", "Implement " \o integrations[i] \o " integration",
                       "Integrate with " \o integrations[i] \o " service", <<>>, 8,
                       <<integrations[i] \o " client", "Integration tests">>)]
            \o << Task("implement", "Circuit breaker implementation",
                       "Implement circuit breaker pattern for external services",
                       <<"node-circuit-breaker">>, 4,
                       <<"Circuit breaker middleware", "Fallback mechanisms">>) >>)

(***************************************************************************)
(* ArchitectPersona.requiresScalabilityPlanning                            *)
(***************************************************************************)
requiresScalabilityPlanning(r) ==
    LET indicators == << r.complexity > 6000,
                         Len(r.integrations) > 2,
                         r.technicalRequirements.scalability = "enterprise",
                         Len(r.features) > 8,
                         Len(r.userRoles) > 3 >>
    IN  Cardinality({i \in 1..5 : indicators[i]}) >= 2

(***************************************************************************)
(* BasePersona: dependencies and implementation phases                     *)
(***************************************************************************)
identifyDependencies(r) ==
    [i \in 1..Len(r.integrations) |-> [type |-> "integration", name |-> r.integrations[i]]]
    \o (IF r.technicalRequirements.security
            THEN << [type |-> "security", name |-> "Authentication service"] >>
            ELSE <<>>)

\* feature.description || `Implementation of ${feature.name} feature`; no
\* parser gives a feature a description
implementTasks(features, priority) ==
    [i \in 1..Len(features) |->
        [PlainTask("implement", "Implement " \o features[i].name,
                   "Implementation of " \o features[i].name \o " feature")
            EXCEPT !.priority = priority]]

createImplementationPhases(r) ==
    LET highPriorityFeatures == SelectSeq(r.features, LAMBDA f : f.priority = "high")
        mediumPriorityFeatures == SelectSeq(r.features, LAMBDA f : f.priority = "medium")
        phases ==
            (IF Len(highPriorityFeatures) > 0
                THEN << Phase("Core Implementation", "implementation", "2-4 weeks",
                              implementTasks(highPriorityFeatures, "high")) >>
                ELSE <<>>)
            \o (IF Len(mediumPriorityFeatures) > 0
                THEN << Phase("Feature Enhancement", "implementation", "1-3 weeks",
                              implementTasks(mediumPriorityFeatures, "medium")) >>
                ELSE <<>>)
    IN  IF Len(phases) = 0
            THEN << Phase("Implementation", "implementation", "2-4 weeks",
                        << [PlainTask("implement", "Core feature implementation",
                                      "Implement main application features")
                               EXCEPT !.priority = "high"] >>) >>
            ELSE phases

(***************************************************************************)
(* Method lookup.  A persona object has the methods of its class and of    *)
(* BasePersona; calling any other name is a TypeError.                     *)
(***************************************************************************)
ClassOf(type) ==
    CASE type = "architect" -> "ArchitectPersona"
      [] type = "frontend" -> "FrontendPersona"
      [] type = "backend" -> "BackendPersona"
      [] type = "security" -> "SecurityPersona"
      [] type = "devops" -> "DevOpsPersona"
      [] type = "qa" -> "QAPersona"

\* the phase builders each class body defines
OwnMethods(class) ==
    CASE class = "ArchitectPersona" ->
          { "createSystemAnalysisPhase", "createArchitecturalDesignPhase",
            "createTechnologySelectionPhase",
            "createScalabilityPlanningPhase",
            "createImplementationRoadmapPhase",
            "createQualityAssurancePhase",
            "createEvolutionStrategyPhase" }
      [] class = "FrontendPersona" ->
          { "createUXAnalysisPhase", "createDesignSystemPhase",
            "createAccessibilityTestingPhase",
            "createPerformanceOptimizationPhase",
            "createCrossBrowserTestingPhase",
            "createComponentArchitecturePhase" }
      [] class = "BackendPersona" ->
          { "createAPIDesignPhase", "createDatabaseDesignPhase",
            "createSecurityImplementationPhase",
            "createPerformanceOptimizationPhase",
            "createMonitoringPhase", "createDeploymentPhase",
            "createServiceImplementationPhase",
            "createIntegrationPhase" }
      [] class = "BasePersona" ->
          { "createRequirementsAnalysisPhase",
            "createArchitecturePlanningPhase",
            "createDependencyMappingPhase",
            "createTestingStrategyPhase",
            "createDeploymentPlanningPhase",
            "createImplementationPhases" }
      [] class = "SecurityPersona" ->
          { "createThreatModelingPhase", "createSecurityArchitecturePhase",
            "createAuthenticationImplementationPhase",
            "createDataProtectionPhase",
            "createSecurityTestingPhase",
            "createComplianceValidationPhase" }
      [] class = "DevOpsPersona" ->
          { "createInfrastructurePhase" }
      [] class = "QAPersona" ->
          { "createTestStrategyPhase" }
      [] OTHER -> {}

Resolve(class, m) ==
    IF m \in OwnMethods(class) THEN class
    ELSE IF m \in OwnMethods("BasePersona") THEN "BasePersona"
    ELSE Undefined

\* what a builder call evaluates to: a phase object, null, an array of
\* phases, or a TypeError thrown by the call itself
PhaseResult(p) == [kind |-> "phase", phases |-> <<p>>]
NullResult == [kind |-> "null", phases |-> <<>>]
ArrayResult(ps) == [kind |-> "array", phases |-> ps]
TypeErrorResult == [kind |-> "TypeError", phases |-> <<>>]

\* this[m](requirements) on an object of the class
\* the method m as the class owner defines it
invokeOf(owner, m, r) ==
        CASE owner = "ArchitectPersona" /\ m = "createSystemAnalysisPhase" -> PhaseResult(ArchitectPersona_createSystemAnalysisPhase)
          [] owner = "ArchitectPersona" /\ m = "createArchitecturalDesignPhase" -> PhaseResult(ArchitectPersona_createArchitecturalDesignPhase)
          [] owner = "ArchitectPersona" /\ m = "createTechnologySelectionPhase" -> PhaseResult(ArchitectPersona_createTechnologySelectionPhase)
          [] owner = "ArchitectPersona" /\ m = "createScalabilityPlanningPhase" ->
            IF requiresScalabilityPlanning(r) THEN PhaseResult(ArchitectPersona_createScalabilityPlanningPhase) ELSE NullResult
          [] owner = "ArchitectPersona" /\ m = "createImplementationRoadmapPhase" -> PhaseResult(ArchitectPersona_createImplementationRoadmapPhase)
          [] owner = "ArchitectPersona" /\ m = "createQualityAssurancePhase" -> PhaseResult(ArchitectPersona_createQualityAssurancePhase)
          [] owner = "ArchitectPersona" /\ m = "createEvolutionStrategyPhase" -> PhaseResult(ArchitectPersona_createEvolutionStrategyPhase)
          [] owner = "FrontendPersona" /\ m = "createUXAnalysisPhase" -> PhaseResult(FrontendPersona_createUXAnalysisPhase)
          [] owner = "FrontendPersona" /\ m = "createDesignSystemPhase" -> PhaseResult(FrontendPersona_createDesignSystemPhase)
          [] owner = "FrontendPersona" /\ m = "createAccessibilityTestingPhase" -> PhaseResult(FrontendPersona_createAccessibilityTestingPhase)
          [] owner = "FrontendPersona" /\ m = "createPerformanceOptimizationPhase" -> PhaseResult(FrontendPersona_createPerformanceOptimizationPhase)
          [] owner = "FrontendPersona" /\ m = "createCrossBrowserTestingPhase" -> PhaseResult(FrontendPersona_createCrossBrowserTestingPhase)
          [] owner = "BackendPersona" /\ m = "createAPIDesignPhase" -> PhaseResult(BackendPersona_createAPIDesignPhase)
          [] owner = "BackendPersona" /\ m = "createDatabaseDesignPhase" -> PhaseResult(BackendPersona_createDatabaseDesignPhase)
          [] owner = "BackendPersona" /\ m = "createSecurityImplementationPhase" -> PhaseResult(BackendPersona_createSecurityImplementationPhase)
          [] owner = "BackendPersona" /\ m = "createPerformanceOptimizationPhase" -> PhaseResult(BackendPersona_createPerformanceOptimizationPhase)
          [] owner = "BackendPersona" /\ m = "createMonitoringPhase" -> PhaseResult(BackendPersona_createMonitoringPhase)
          [] owner = "BackendPersona" /\ m = "createDeploymentPhase" -> PhaseResult(BackendPersona_createDeploymentPhase)
          [] owner = "BasePersona" /\ m = "createRequirementsAnalysisPhase" -> PhaseResult(BasePersona_createRequirementsAnalysisPhase)
          [] owner = "BasePersona" /\ m = "createArchitecturePlanningPhase" -> PhaseResult(BasePersona_createArchitecturePlanningPhase)
          [] owner = "BasePersona" /\ m = "createDependencyMappingPhase" ->
            IF Len(identifyDependencies(r)) > 0 THEN PhaseResult(BasePersona_createDependencyMappingPhase) ELSE NullResult
          [] owner = "BasePersona" /\ m = "createTestingStrategyPhase" -> PhaseResult(BasePersona_createTestingStrategyPhase)
          [] owner = "BasePersona" /\ m = "createDeploymentPlanningPhase" -> PhaseResult(BasePersona_createDeploymentPlanningPhase)
          [] owner = "SecurityPersona" /\ m = "createThreatModelingPhase" -> PhaseResult(SecurityPersona_createThreatModelingPhase)
          [] owner = "SecurityPersona" /\ m = "createSecurityArchitecturePhase" -> PhaseResult(SecurityPersona_createSecurityArchitecturePhase)
          [] owner = "SecurityPersona" /\ m = "createAuthenticationImplementationPhase" -> PhaseResult(SecurityPersona_createAuthenticationImplementationPhase)
          [] owner = "SecurityPersona" /\ m = "createDataProtectionPhase" -> PhaseResult(SecurityPersona_createDataProtectionPhase)
          [] owner = "SecurityPersona" /\ m = "createSecurityTestingPhase" -> PhaseResult(SecurityPersona_createSecurityTestingPhase)
          [] owner = "SecurityPersona" /\ m = "createComplianceValidationPhase" -> PhaseResult(SecurityPersona_createComplianceValidationPhase)
          [] owner = "DevOpsPersona" /\ m = "createInfrastructurePhase" -> PhaseResult(DevOpsPersona_createInfrastructurePhase)
          [] owner = "QAPersona" /\ m = "createTestStrategyPhase" -> PhaseResult(QAPersona_createTestStrategyPhase)
          [] owner = "FrontendPersona" /\ m = "createComponentArchitecturePhase" -> PhaseResult(createComponentArchitecturePhase(r))
          [] owner = "BackendPersona" /\ m = "createServiceImplementationPhase" -> PhaseResult(createServiceImplementationPhase(r))
          [] owner = "BackendPersona" /\ m = "createIntegrationPhase" ->
            IF Len(r.integrations) = 0 THEN NullResult
            ELSE PhaseResult(createIntegrationPhase(r))
          [] owner = "BasePersona" /\ m = "createImplementationPhases" -> ArrayResult(createImplementationPhases(r))
          [] OTHER -> TypeErrorResult

\* this[m](requirements) on a persona of the class
invoke(class, m, r) == invokeOf(Resolve(class, m), m, r)

(***************************************************************************)
(* generateSystematicWorkflow of the six personas                          *)
(***************************************************************************)
systematicCalls(class) ==
    CASE class = "ArchitectPersona" ->
          << "createSystemAnalysisPhase", "createArchitecturalDesignPhase",
             "createTechnologySelectionPhase", "createScalabilityPlanningPhase",
             "createImplementationRoadmapPhase", "createQualityAssurancePhase",
             "createEvolutionStrategyPhase" >>
      [] class = "FrontendPersona" ->
          << "createUXAnalysisPhase", "createDesignSystemPhase",
             "createComponentArchitecturePhase", "createImplementationPhases",
             "createAccessibilityTestingPhase", "createPerformanceOptimizationPhase",
             "createCrossBrowserTestingPhase" >>
      [] class = "BackendPersona" ->
          << "createAPIDesignPhase", "createDatabaseDesignPhase",
             "createSecurityImplementationPhase", "createServiceImplementationPhase",
             "createIntegrationPhase", "createPerformanceOptimizationPhase",
             "createMonitoringPhase", "createDeploymentPhase" >>
      [] class = "SecurityPersona" ->
          << "createThreatModelingPhase", "createSecurityArchitecturePhase",
             "createAuthenticationImplementationPhase", "createDataProtectionPhase",
             "createSecurityTestingPhase", "createComplianceValidationPhase" >>
      [] class = "DevOpsPersona" ->
          << "createInfrastructurePhase", "createCICDPhase", "createMonitoringPhase",
             "createDeploymentPhase" >>
      [] class = "QAPersona" ->
          << "createTestStrategyPhase", "createTestImplementationPhase",
             "createAutomationPhase", "createQualityValidationPhase" >>
      [] class = "BasePersona" ->
          << "createRequirementsAnalysisPhase", "createArchitecturePlanningPhase",
             "createDependencyMappingPhase", "createImplementationPhases",
             "createTestingStrategyPhase", "createDeploymentPlanningPhase" >>

\* the classes whose filter reads phase.tasks.length without testing phase.tasks
UnguardedFilter == {"ArchitectPersona", "BackendPersona", "DevOpsPersona", "QAPersona"}

Thrown(message) == [ok |-> FALSE, message |-> message, phases |-> <<>>]
Returned(phases) == [ok |-> TRUE, message |-> NoError, phases |-> phases]

\* the phases of the results of the calls, or what was thrown: the array
\* literal is built call by call, so the first undefined builder throws; then
\* the filter runs over the results
filterPhases(class, calls, results) ==
    LET missing == {i \in 1..Len(calls) : results[i].kind = "TypeError"}
        kept == [i \in 1..Len(calls) |->
                    IF results[i].kind = "phase" /\ Len(results[i].phases[1].tasks) > 0
                        THEN results[i].phases ELSE <<>>]
    IN  IF missing # {}
            THEN Thrown("this." \o calls[CHOOSE i \in missing : \A j \in missing : i <= j]
                        \o " is not a function")
        ELSE IF class \in UnguardedFilter /\ \E i \in 1..Len(calls) : results[i].kind = "array"
            THEN Thrown("Cannot read properties of undefined (reading 'length')")
        ELSE Returned(Flatten(kept))

\* generateSystematicWorkflow of the class
generateSystematicWorkflow(class, r) ==
    filterPhases(class, systematicCalls(class),
                 [i \in 1..Len(systematicCalls(class)) |->
                     invoke(class, systematicCalls(class)[i], r)])

(***************************************************************************)
(* BasePersona: agile synthesis                                            *)
(***************************************************************************)
\* a faulty variant: a feature of high complexity is worth more than a whole sprint
estimateStoryPointsHeavy(feature) ==
    IF feature.complexity = "high" THEN 21
    ELSE IF feature.complexity = "medium" THEN 5
    ELSE IF feature.complexity = "low" THEN 3
    ELSE 5

estimateStoryPoints(feature) ==
    IF feature.complexity = "high" THEN 8
    ELSE IF feature.complexity = "medium" THEN 5
    ELSE IF feature.complexity = "low" THEN 3
    ELSE 5

createUserStories(feature) ==
    << [title |-> "User can " \o feature.name,
        description |-> "As a user, I want to " \o feature.name,
        storyPoints |-> estimateStoryPoints(feature)] >>

convertToEpics(r) ==
    [i \in 1..Len(r.features) |->
        [name |-> r.features[i].name, userStories |-> createUserStories(r.features[i])]]

maxPointsPerSprint == 20

NewSprint == [userStories |-> <<>>, totalPoints |-> 0]

AddStory(sprint, story) ==
    [userStories |-> Append(sprint.userStories, story),
     totalPoints |-> sprint.totalPoints + story.storyPoints]

\* the loop body of organizeSprints over the stories in epic order
RECURSIVE organizeStories(_, _, _)
organizeStories(stories, sprints, currentSprint) ==
    IF stories = <<>>
        THEN IF Len(currentSprint.userStories) > 0 THEN Append(sprints, currentSprint)
             ELSE sprints
    ELSE LET story == Head(stories)
         IN  IF currentSprint.totalPoints + story.storyPoints > maxPointsPerSprint
                 THEN organizeStories(Tail(stories),
                          IF Len(currentSprint.userStories) > 0
                              THEN Append(sprints, currentSprint) ELSE sprints,
                          AddStory(NewSprint, story))
                 ELSE organizeStories(Tail(stories), sprints, AddStory(currentSprint, story))

\* first-fit: a story goes to the first sprint, in creation order, that has room
RECURSIVE firstFitStories(_, _)
firstFitStories(stories, sprints) ==
    IF stories = <<>> THEN sprints
    ELSE LET story == Head(stories)
             fits == {k \in 1..Len(sprints) :
                         sprints[k].totalPoints + story.storyPoints <= maxPointsPerSprint}
         IN  IF fits = {}
                 THEN firstFitStories(Tail(stories), Append(sprints, AddStory(NewSprint, story)))
                 ELSE LET k == CHOOSE k \in fits : \A j \in fits : k <= j
                      IN  firstFitStories(Tail(stories),
                              [sprints EXCEPT ![k] = AddStory(sprints[k], story)])

\* a faulty variant: sprints are packed first-fit
organizeSprintsFirstFit(epics) ==
    firstFitStories(Flatten([i \in 1..Len(epics) |-> epics[i].userStories]), <<>>)

organizeSprints(epics) ==
    organizeStories(Flatten([i \in 1..Len(epics) |-> epics[i].userStories]), <<>>, NewSprint)

generateAgileWorkflow(r) ==
    LET sprints == organizeSprints(convertToEpics(r))
    IN  [i \in 1..Len(sprints) |->
            Phase("Sprint " \o ToStr(i), "sprint", "2 weeks",
                  [j \in 1..Len(sprints[i].userStories) |->
                      [PlainTask("user-story", sprints[i].userStories[j].title,
                                 sprints[i].userStories[j].description)
                          EXCEPT !.storyPoints = sprints[i].userStories[j].storyPoints]])]

(***************************************************************************)
(* BasePersona: mvp synthesis                                              *)
(***************************************************************************)
\* a faulty variant: the list of core features is not cut to five
identifyCoreFeaturesUncut(r) ==
    SelectSeq(r.features, LAMBDA f : f.priority = "high" \/ f.priority = "critical")

identifyCoreFeatures(r) ==
    Slice(SelectSeq(r.features, LAMBDA f : f.priority = "high" \/ f.priority = "critical"), 5)

generateMVPWorkflow(r) ==
    LET coreFeatures == identifyCoreFeatures(r)
    IN  << Phase("MVP Definition", "planning", Undefined,
               << PlainTask("analysis", "Define MVP scope",
                            "Identify minimum viable features for initial release"),
                  PlainTask("design", "Create MVP wireframes",
                            "Design core user flows and interfaces") >>),
           Phase("Rapid Development", "implementation", Undefined,
               [i \in 1..Len(coreFeatures) |->
                   [PlainTask("implement", "Implement " \o coreFeatures[i].name, Undefined)
                       EXCEPT !.priority = "high"]]),
           Phase("MVP Validation", "validation", Undefined,
               << PlainTask("test", "User acceptance testing",
                            "Validate core functionality with target users"),
                  PlainTask("deploy", "MVP deployment",
                            "Deploy MVP to production environment") >>) >>

(***************************************************************************)
(* BasePersona.generateWorkflow                                            *)
(***************************************************************************)
\* requirements.complexity || 0.5
complexityOrDefault(r) == IF r.complexity = 0 THEN 5000 ELSE r.complexity

estimateProjectDuration(r) ==
    LET estimatedWeeks == 2 + CeilDiv(Len(r.features) * (10000 + complexityOrDefault(r)), 20000)
        months == CeilDiv(estimatedWeeks, 4)
    IN  IF estimatedWeeks <= 4 THEN ToStr(estimatedWeeks) \o " weeks"
        ELSE ToStr(months) \o " month" \o (IF months > 1 THEN "s" ELSE "")

assessRiskLevel(r) ==
    LET riskScore == (IF r.complexity > 7000 THEN 2 ELSE 0)
                     + (IF Len(r.integrations) > 3 THEN 2 ELSE 0)
                     + (IF r.technicalRequirements.security THEN 1 ELSE 0)
                     + (IF Len(r.features) > 10 THEN 1 ELSE 0)
    IN  IF riskScore >= 4 THEN "high"
        ELSE IF riskScore >= 2 THEN "medium"
        ELSE "low"

\* getQualityGates of the persona's class; the classes that do not define it
\* inherit BasePersona's
getQualityGates(class) ==
    CASE class = "ArchitectPersona" ->
             << "Architecture decision record review",
                "System design consistency check",
                "Scalability requirements validation",
                "Security architecture review",
                "Performance requirements verification",
                "Integration pattern compliance",
                "Code quality and maintainability assessment",
                "Documentation completeness review",
                "Risk assessment and mitigation validation",
                "Future evolution capability check" >>
      [] class = "FrontendPersona" ->
             << "Design system consistency check",
                "Accessibility audit (WCAG 2.1 AA)",
                "Performance budget validation",
                "Cross-browser compatibility test",
                "Mobile responsiveness validation",
                "Code quality and ESLint compliance",
                "Bundle size optimization check",
                "User acceptance testing",
                "Visual regression testing" >>
      [] class = "BackendPersona" ->
             << "API specification compliance check",
                "Security vulnerability assessment",
                "Database integrity validation",
                "Performance benchmark validation",
                "Error handling completeness check",
                "Authentication and authorization test",
                "Data validation and sanitization test",
                "Load testing and stress testing",
                "Backup and recovery testing",
                "Monitoring and alerting validation" >>
      [] OTHER ->
             << "Requirements validation",
                "Architecture review",
                "Code quality check",
                "Security assessment",
                "Performance validation",
                "User acceptance testing" >>

\* getBestPractices of the class
getBestPractices(class) ==
    CASE class = "ArchitectPersona" ->
          << "Design for change and evolution",
             "Separate concerns and minimize coupling",
             "Document architectural decisions and rationale",
             "Plan for failure and implement circuit breakers",
             "Use well-established patterns and avoid over-engineering",
             "Consider the total cost of ownership",
             "Design for observability and debugging",
             "Implement proper abstraction layers",
             "Plan for data consistency and integrity",
             "Consider security from the beginning",
             "Design for testability at all levels",
             "Plan for incremental delivery and rollback" >>
      [] class = "FrontendPersona" ->
          << "Implement mobile-first responsive design",
             "Ensure WCAG 2.1 AA accessibility compliance",
             "Optimize for Core Web Vitals performance metrics",
             "Use semantic HTML and proper ARIA labels",
             "Implement proper error boundaries and loading states",
             "Follow consistent naming conventions for CSS classes",
             "Optimize images and implement lazy loading",
             "Use progressive enhancement principles",
             "Test across multiple browsers and devices",
             "Implement proper focus management for keyboard users" >>
      [] class = "BackendPersona" ->
          << "Implement proper error handling and logging",
             "Use connection pooling for database connections",
             "Implement comprehensive input validation",
             "Follow RESTful API design principles",
             "Use proper HTTP status codes and responses",
             "Implement rate limiting and request throttling",
             "Use database transactions for data consistency",
             "Implement proper authentication and authorization",
             "Use environment variables for configuration",
             "Implement health checks and monitoring endpoints",
             "Follow the principle of least privilege",
             "Implement proper backup and recovery procedures" >>
      [] class = "SecurityPersona" ->
          << "Implement defense in depth strategy",
             "Follow principle of least privilege", "Use secure coding practices",
             "Implement proper input validation",
             "Use encryption for data at rest and in transit",
             "Implement proper session management",
             "Regular security testing and audits",
             "Keep security dependencies updated" >>
      [] class = "DevOpsPersona" ->
          << "Automate everything possible", "Use Infrastructure as Code",
             "Implement comprehensive monitoring", "Design for failure and recovery",
             "Use container orchestration", "Implement proper CI/CD pipelines",
             "Monitor security and compliance" >>
      [] class = "QAPersona" ->
          << "Design tests before implementation", "Focus on risk-based testing",
             "Automate repetitive tests", "Test early and often",
             "Include performance testing", "Test edge cases and error conditions",
             "Maintain test documentation" >>
      [] OTHER ->
          << "Follow established coding standards",
             "Implement comprehensive testing", "Document all design decisions",
             "Ensure security best practices", "Optimize for maintainability" >>

\* config.mcpPreferences of the class, null being Undefined
mcpPreferences(class) ==
    CASE class = "ArchitectPersona" ->
          [primary |-> "Sequential", secondary |-> "Context7", avoided |-> "Magic"]
      [] class = "FrontendPersona" ->
          [primary |-> "Magic", secondary |-> "Playwright", avoided |-> Undefined]
      [] class = "BackendPersona" ->
          [primary |-> "Context7", secondary |-> "Sequential", avoided |-> "Magic"]
      [] class = "SecurityPersona" ->
          [primary |-> "Sequential", secondary |-> "Context7", avoided |-> "Magic"]
      [] class = "DevOpsPersona" ->
          [primary |-> "Sequential", secondary |-> "Context7", avoided |-> "Magic"]
      [] class = "QAPersona" ->
          [primary |-> "Playwright", secondary |-> "Sequential", avoided |-> "Magic"]

\* the key names and the string values of what the enhanceWorkflow of the
\* class adds after super.enhanceWorkflow
classEnhancementText(class) ==
    CASE class = "ArchitectPersona" ->
          { "architecturalPrinciples", "designDecisions", "qualityAttributes",
            "evolutionStrategy", "template", "required", "review", "performance",
            "scalability", "reliability", "security", "maintainability", "usability",
            "versionStrategy", "migrationPlanning", "technicalDebt",
            "futureProofing", "Separation of Concerns", "Single Responsibility",
            "Open/Closed Principle", "Dependency Inversion",
            "Composition over Inheritance", "Architecture Decision Record (ADR)",
            "Context", "Decision", "Rationale", "Consequences",
            "All architectural decisions require peer review",
            "Response time, throughput, resource utilization",
            "Horizontal and vertical scaling capabilities",
            "Availability, fault tolerance, recovery",
            "Authentication, authorization, data protection",
            "Modifiability, testability, documentation",
            "User experience, accessibility, learnability",
            "Semantic versioning with backward compatibility",
            "Zero-downtime deployment capability",
            "Regular debt assessment and refactoring cycles",
            "Anticipate and plan for future requirements" }
      [] class = "FrontendPersona" ->
          { "performanceBudgets", "accessibilityTargets", "browserSupport",
            "designTokens", "wcagLevel", "minimumScore", "screenReaderCompatibility",
            "keyboardNavigation", "chrome", "firefox", "safari", "edge", "mobile",
            "colors", "typography", "spacing", "breakpoints", "loadTime",
            "bundleSize", "accessibility", "coreWebVitals", "AA", "last 2 versions",
            "iOS 12+, Android 8+", "Define consistent color palette",
            "Establish typography scale", "Define spacing system",
            "Set responsive breakpoints", "<3s on 3G, <1s on WiFi",
            "<500KB initial, <2MB total", "WCAG 2.1 AA minimum (90%+)",
            "LCP <2.5s, FID <100ms, CLS <0.1" }
      [] class = "BackendPersona" ->
          { "reliabilityTargets", "securityRequirements", "performanceTargets",
            "operationalRequirements", "authentication", "authorization",
            "dataProtection", "inputValidation", "securityHeaders", "responseTime",
            "throughput", "errorRate", "availability", "monitoring", "healthChecks",
            "backups", "deployment", "uptime", "recoveryTime",
            "JWT or OAuth 2.0 implementation", "Role-based access control",
            "Encryption at rest and in transit", "Comprehensive input sanitization",
            "Proper security headers implementation", "<200ms for API endpoints",
            ">1000 requests/second", "<0.1% for critical operations", "99.9% uptime",
            "Comprehensive APM and logging", "Health and readiness endpoints",
            "Automated backup and recovery", "Zero-downtime deployment capability",
            "99.9% (8.7h/year downtime)", "<200ms for API calls",
            "<5 minutes for critical services" }
      [] OTHER -> {}

\* BasePersona.getMCPRecommendations; a null in a template string reads "null"
getMCPRecommendations(type) ==
    LET preferences == mcpPreferences(ClassOf(type))
    IN  [ primary |-> preferences.primary,
          secondary |-> preferences.secondary,
          avoided |-> preferences.avoided,
          rationale |-> type \o " persona optimized for "
                        \o (IF preferences.primary = Undefined THEN "null"
                            ELSE preferences.primary)
                        \o " integration" ]

\* the keys enhanceWorkflow of the persona's class adds to the workflow
personaEnhancements(type) ==
    {"mcpRecommendations", "qualityGates", "bestPractices"}
    \cup (CASE type = "architect" ->
                 {"architecturalPrinciples", "designDecisions", "qualityAttributes",
                  "evolutionStrategy"}
            [] type = "frontend" ->
                 {"performanceBudgets", "accessibilityTargets", "browserSupport",
                  "designTokens"}
            [] type = "backend" ->
                 {"reliabilityTargets", "securityRequirements", "performanceTargets",
                  "operationalRequirements"}
            [] OTHER -> {})

NoWorkflow == [none |-> TRUE]

\* stands for a key the object does not have
NotAttached == [none |-> TRUE]

\* the workflow object around the phases the strategy returned
assembleWorkflow(type, r, opts, result) ==
    IF ~result.ok THEN [ok |-> FALSE, message |-> result.message, workflow |-> NoWorkflow]
        ELSE [ok |-> TRUE, message |-> NoError,
              workflow |->
                  [ title |-> IF r.title = "" THEN "Implementation Workflow" ELSE r.title,
                    strategy |-> opts.strategy,
                    persona |-> type,
                    phases |-> result.phases,
                    metadata |-> [ estimatedDuration |-> estimateProjectDuration(r),
                                   complexity |-> complexityOrDefault(r),
                                   riskLevel |-> assessRiskLevel(r) ],
                    mcpRecommendations |-> getMCPRecommendations(type),
                    qualityGates |-> getQualityGates(ClassOf(type)),
                    bestPractices |-> getBestPractices(ClassOf(type)),
                    enhancements |-> personaEnhancements(type),
                    acceptanceCriteria |-> <<>>,
                    attached |-> {},
                    dependencies |-> NotAttached,
                    risks |-> NotAttached,
                    parallelStreams |-> <<>>,
                    milestones |-> <<>> ]]

\* a switch whose default throws instead of falling back
generateWorkflowStrict(type, r, opts) ==
    assembleWorkflow(type, r, opts,
        CASE opts.strategy = "agile" -> Returned(generateAgileWorkflow(r))
          [] opts.strategy = "mvp" -> Returned(generateMVPWorkflow(r))
          [] opts.strategy = "systematic" -> generateSystematicWorkflow(ClassOf(type), r)
          [] OTHER -> Thrown("Unknown strategy: " \o opts.strategy))

\* persona.generateWorkflow(requirements, options) of the persona of the type;
\* the switch on the strategy has the systematic workflow for its default
generateWorkflow(type, r, opts) ==
    assembleWorkflow(type, r, opts,
        CASE opts.strategy = "agile" -> Returned(generateAgileWorkflow(r))
          [] opts.strategy = "mvp" -> Returned(generateMVPWorkflow(r))
          [] OTHER -> generateSystematicWorkflow(ClassOf(type), r))

(***************************************************************************)
(* Input strings.  The model runs on a catalog of concrete inputs; Words   *)
(* is the text cut at white space, with the characters that end a regular  *)
(* expression's capture ("." and ",") as words of their own.               *)
(***************************************************************************)
Descriptions ==
    { "", "Build a login form", "Implement payment api. Add search",
      "Deploy to cloud", "Security audit", "Plan roadmap", "see notes.txt",
      "Build a responsive admin dashboard with React components, charts, and mobile-friendly design",
      "Implement REST API with authentication and PostgreSQL database integration",
      "Add Stripe api. Add stripe api" }

Paths == {"docs/prd.md", "notes.txt", "docs/spec.pdf", "docs/missing.md", "spec.pdf"}

Words(text) ==
    CASE text = "Build a login form" -> <<"Build", "a", "login", "form">>
      [] text = "Implement payment api. Add search" ->
             <<"Implement", "payment", "api", ".", "Add", "search">>
      [] text = "Deploy to cloud" -> <<"Deploy", "to", "cloud">>
      [] text = "Security audit" -> <<"Security", "audit">>
      [] text = "Plan roadmap" -> <<"Plan", "roadmap">>
      [] text = "see notes.txt" -> <<"see", "notes", ".", "txt">>
      [] text = "spec.pdf" -> <<"spec", ".", "pdf">>
      [] text = "Add Stripe api. Add stripe api" ->
             <<"Add", "Stripe", "api", ".", "Add", "stripe", "api">>
      [] text = "Build a responsive admin dashboard with React components, charts, and mobile-friendly design" ->
             <<"Build", "a", "responsive", "admin", "dashboard", "with", "React",
               "components", ",", "charts", ",", "and", "mobile", "-", "friendly", "design">>
      [] text = "Implement REST API with authentication and PostgreSQL database integration" ->
             <<"Implement", "REST", "API", "with", "authentication", "and", "PostgreSQL",
               "database", "integration">>
      [] OTHER -> <<>>

\* fs.readFile: the files of the model's file system and their content
FileContent(path) ==
    CASE path = "docs/prd.md" -> "Implement payment api. Add search"
      [] path = "notes.txt" -> "Build a login form"
      [] path \in {"docs/spec.pdf", "spec.pdf"} -> "Plan roadmap"
      [] OTHER -> Undefined

FileExists(path) == path \in {"docs/prd.md", "notes.txt", "docs/spec.pdf", "spec.pdf"}

\* input.includes(sub) for sub in '.md', '.txt', '/'
inputIncludes(in, sub) ==
    CASE sub = ".md" -> in \in {"docs/prd.md", "docs/missing.md"}
      [] sub = ".txt" -> in \in {"notes.txt", "see notes.txt"}
      [] sub = "/" -> in \in {"docs/prd.md", "docs/spec.pdf", "docs/missing.md"}

\* filePath.split('.').pop().toLowerCase()
extension(filePath) ==
    CASE filePath \in {"docs/prd.md", "docs/missing.md"} -> "md"
      [] filePath \in {"notes.txt", "see notes.txt"} -> "txt"
      [] filePath \in {"docs/spec.pdf", "spec.pdf"} -> "pdf"
      [] OTHER -> toLowerCase(filePath)

RECURSIVE Join(_)
Join(ws) ==
    IF ws = <<>> THEN ""
    ELSE IF Len(ws) = 1 THEN ws[1]
    ELSE ws[1] \o " " \o Join(Tail(ws))

IsTerminator(w) == w \in {".", ","}

LowerWords(ws) == [i \in 1..Len(ws) |-> toLowerCase(ws[i])]

\* some word of the lower-cased text is one of the keywords: /\b(k1|k2|...)\b/.test
HasWord(text, keywords) == Range(LowerWords(Words(text))) \cap keywords # {}

(***************************************************************************)
(* PRDParser: free-form extraction                                         *)
(***************************************************************************)
\* the first line when it is short and has no '.', else the first sentence when
\* that is short; the texts of the model are one line each
extractTitle(description) ==
    LET ws == Words(description)
        stops == {i \in 1..Len(ws) : ws[i] = "."}
        firstSentence ==
            Join(SubSeq(ws, 1, (CHOOSE i \in stops : \A j \in stops : i <= j) - 1))
    IN  IF Len(description) < 100 /\ stops = {} THEN description
        ELSE IF stops # {} /\ Len(firstSentence) < 50 THEN firstSentence
        ELSE "Feature Implementation"

\* the captures of /lead (.*?)(?:\.|,|\n|$)/gi from word position `from` on;
\* lead is the words of the pattern's fixed part
RECURSIVE captures(_, _, _)
captures(ws, lead, from) ==
    LET n == Len(lead)
        starts == {i \in from..(Len(ws) - n) :
                      /\ LowerWords(SubSeq(ws, i, i + n - 1)) = lead
                      /\ ~IsTerminator(ws[i + n])}
    IN  IF starts = {} THEN <<>>
        ELSE LET i == CHOOSE s \in starts : \A t \in starts : s <= t
                 ends == {j \in (i + n)..Len(ws) : IsTerminator(ws[j])}
                 stop == IF ends = {} THEN Len(ws) + 1
                         ELSE CHOOSE e \in ends : \A f \in ends : e <= f
             IN  <<Join(SubSeq(ws, i + n, stop - 1))>> \o captures(ws, lead, stop + 1)

featureVerbs == <<"implement", "create", "build", "develop", "add">>

extractFeatures(text) ==
    LET found == Flatten([v \in 1..Len(featureVerbs) |->
                     captures(Words(text), <<featureVerbs[v]>>, 1)])
        kept == SelectSeq(found, LAMBDA f : Len(f) > 5 /\ Len(f) < 100)
    IN  Slice([i \in 1..Len(kept) |-> Feature(kept[i], "medium", Undefined)], 10)

\* the word begins with the keyword (the patterns have no \b after it): the
\* keyword itself or its plural, in the texts of the model
beginsWith(w, keyword) == \E rest \in {"", "s"} : w = keyword \o rest

\* the words matched by (\w+) in /\b(\w+)\s*keyword/gi, in text order
wordsBefore(ws, keyword) ==
    LET at == SelectSeq([i \in 1..Len(ws) |-> i],
                        LAMBDA i : i > 1 /\ beginsWith(toLowerCase(ws[i]), keyword)
                                         /\ ~IsTerminator(ws[i - 1]))
    IN  [n \in 1..Len(at) |-> ws[at[n] - 1]]

RECURSIVE SetAddAll(_, _)
SetAddAll(s, xs) == IF xs = <<>> THEN s ELSE SetAddAll(SetAdd(s, Head(xs)), Tail(xs))

componentKeywords ==
    <<"component", "module", "service", "widget", "page", "form", "dialog", "modal">>

extractComponents(text) ==
    LET found == Flatten([k \in 1..Len(componentKeywords) |->
                     LowerWords(wordsBefore(Words(text), componentKeywords[k]))])
    IN  Slice(SetAddAll(<<>>, SelectSeq(found, LAMBDA c : Len(c) > 2)), 15)

extractIntegrations(text) ==
    LET ws == Words(text)
        found == captures(ws, <<"integrate", "with">>, 1)
                 \o captures(ws, <<"connect", "to">>, 1)
                 \o wordsBefore(ws, "api") \o wordsBefore(ws, "service")
                 \o captures(ws, <<"third-party">>, 1)
                 \o captures(ws, <<"third", "party">>, 1)
    IN  Slice(SetAddAll(<<>>, SelectSeq(found, LAMBDA x : Len(x) > 2 /\ Len(x) < 50)), 10)

roleWords == {"admin", "administrator", "user", "customer", "client", "manager",
              "operator", "viewer", "editor"}

extractUserRoles(text) ==
    Slice(SetAddAll(<<>>, SelectSeq(LowerWords(Words(text)), LAMBDA w : w \in roleWords)), 8)

extractPages(text) ==
    LET ws == Words(text)
        found == LowerWords(wordsBefore(ws, "page") \o wordsBefore(ws, "screen")
                            \o wordsBefore(ws, "view"))
    IN  Slice(SetAddAll(<<>>, SelectSeq(found, LAMBDA p : Len(p) > 2 /\ Len(p) < 30)), 12)

extractDomains(text) ==
    (IF HasWord(text, {"ui", "ux", "frontend", "react", "vue", "angular", "component",
                       "responsive", "css", "html", "javascript"})
        THEN {"frontend"} ELSE {})
    \cup (IF HasWord(text, {"api", "backend", "server", "database", "node", "python",
                            "java", "sql", "nosql", "rest", "graphql"})
        THEN {"backend"} ELSE {})
    \cup (IF HasWord(text, {"security", "auth", "encryption", "token", "oauth", "ssl",
                            "https", "privacy", "gdpr"})
        THEN {"security"} ELSE {})
    \cup (IF HasWord(text, {"deploy", "infrastructure", "cloud", "aws", "docker",
                            "kubernetes", "devops"})
        THEN {"infrastructure"} ELSE {})
    \cup (IF HasWord(text, {"mobile", "ios", "android", "flutter", "responsive"})
        THEN {"mobile"} ELSE {})

patternMap ==
    [ p \in Patterns |->
        CASE p = "ui-component" -> {"component", "widget", "element", "button", "form",
                                    "input", "modal"}
          [] p = "api" -> {"api", "endpoint", "rest", "graphql", "service"}
          [] p = "database" -> {"database", "db", "sql", "nosql", "mongo", "postgres", "mysql"}
          [] p = "authentication" -> {"auth", "login", "register", "signin", "signup",
                                      "oauth", "jwt"}
          [] p = "realtime" -> {"realtime", "websocket", "socket", "live", "streaming"}
          [] p = "responsive" -> {"responsive", "mobile", "tablet", "desktop", "adaptive"}
          [] p = "testing" -> {"test", "testing", "unit", "integration", "e2e", "spec"}
          [] p = "deployment" -> {"deploy", "deployment", "pipeline", "build"}
          [] p = "performance" -> {"performance", "optimization", "cache", "caching", "speed"}
          [] p = "security" -> {"security", "secure", "encryption", "ssl", "https", "privacy"} ]

extractPatterns(text) == {p \in Patterns : HasWord(text, patternMap[p])}

complexityKeywords ==
    { "realtime", "real-time", "complex", "advanced", "sophisticated", "enterprise",
      "scalable", "distributed", "microservices", "integration", "authentication",
      "authorization", "encryption", "performance", "optimization", "caching",
      "database", "api", "rest", "graphql", "websocket" }

\* text.match over the four technical patterns (acronyms, dotted names, ...API,
\* ...DB): the number of matches in each text of the model
technicalCount(text) ==
    CASE text \in {"see notes.txt", "spec.pdf"} -> 1
      [] text = "Implement REST API with authentication and PostgreSQL database integration" -> 2
      [] OTHER -> 0

\* in ten-thousandths: min(length / 5000, 0.3) + min(0.05 matches, 0.4)
\* + min(0.02 technicalCount, 0.3), at most 1
analyzeComplexity(text) ==
    LET matches == {k \in complexityKeywords :
                       \E w \in Range(Words(text)) : lowerIncludes(w, k)}
    IN  Min(Min(Len(text) * 2, 3000) + Min(Cardinality(matches) * 500, 4000)
            + Min(technicalCount(text) * 200, 3000), 10000)

\* an object value: === to no string
ObjectValue == "object"

Parsed(r) == [ok |-> TRUE, message |-> NoError, requirements |-> r]
ParseFailed(message) == [ok |-> FALSE, message |-> message, requirements |-> [none |-> TRUE]]

parseDescription(description) ==
    [ EmptyRequirements EXCEPT
        !.title = extractTitle(description),
        !.overview = description,
        !.features = extractFeatures(description),
        !.components = extractComponents(description),
        !.integrations = extractIntegrations(description),
        !.userRoles = extractUserRoles(description),
        !.pages = extractPages(description),
        !.complexity = analyzeComplexity(description),
        !.domains = extractDomains(description),
        !.patterns = extractPatterns(description),
        !.timeline = ObjectValue ]

parseText(content) == parseDescription(content)

\* this.sectionPatterns, in the order Object.entries walks them
sectionPatterns ==
    << <<"overview", {"overview", "summary", "description"}>>,
       <<"features", {"features", "functionality", "requirements"}>>,
       <<"userStories", {"user stories", "stories", "scenarios"}>>,
       <<"acceptance", {"acceptance criteria", "acceptance", "criteria"}>>,
       <<"technical", {"technical requirements", "technical specs", "architecture"}>>,
       <<"constraints", {"constraints", "limitations", "assumptions"}>>,
       <<"timeline", {"timeline", "schedule", "milestones"}>>,
       <<"resources", {"resources", "team", "budget"}>> >>

\* pattern.test(headingText.toLowerCase()): some alternative occurs in the text
patternTest(pattern, headingText) == \E alternative \in pattern : lowerIncludes(headingText, alternative)

\* the first section, in the order of sectionPatterns, whose pattern matches
identifySection(headingText) ==
    LET matching == {i \in 1..Len(sectionPatterns) :
                        patternTest(sectionPatterns[i][2], headingText)}
    IN  IF matching = {} THEN "other"
        ELSE sectionPatterns[CHOOSE i \in matching : \A j \in matching : i <= j][1]

\* the tokens of marked.lexer that extractSections tells apart
HeadingToken(text) == [type |-> "heading", text |-> text, raw |-> "# " \o text]
ParagraphToken(text) == [type |-> "paragraph", text |-> text, raw |-> text]

\* sections[currentSection] = currentContent.join(of the line feed), when there
\* is a current section; the joined content is kept as the list of its lines
saveSection(sections, currentSection, currentContent) ==
    IF currentSection = Undefined THEN sections
    ELSE [ key \in DOMAIN sections \cup {currentSection} |->
             IF key = currentSection THEN currentContent ELSE sections[key] ]

\* the loop of extractSections over the tokens that are left
RECURSIVE extractSectionsFrom(_, _, _, _)
extractSectionsFrom(tokens, sections, currentSection, currentContent) ==
    IF tokens = <<>> THEN saveSection(sections, currentSection, currentContent)
    ELSE IF Head(tokens).type = "heading"
        THEN extractSectionsFrom(Tail(tokens),
                                 saveSection(sections, currentSection, currentContent),
                                 identifySection(Head(tokens).text), <<>>)
    ELSE IF currentSection # Undefined
        THEN extractSectionsFrom(Tail(tokens), sections, currentSection,
                                 Append(currentContent, Head(tokens).raw))
    ELSE extractSectionsFrom(Tail(tokens), sections, currentSection, currentContent)

\* an object without keys
EmptyObject == [key \in {} |-> <<>>]

extractSections(tokens) == extractSectionsFrom(tokens, EmptyObject, Undefined, <<>>)

\* the methods class PRDParser defines
PRDParserMethods ==
    { "parseFile", "parseDescription", "detectFileType", "parseMarkdown", "parseText",
      "extractSections", "identifySection", "findTitle", "extractTitle",
      "parseFeaturesList", "parseUserStories", "parseAcceptanceCriteria",
      "extractFeatures", "extractComponents", "extractIntegrations", "extractUserRoles",
      "extractPages", "analyzeComplexity", "extractDomains", "extractPatterns",
      "extractRequirements", "extractAcceptanceCriteria", "extractTimeline",
      "extractResources", "extractPriority", "extractComplexity", "isTestable",
      "parseTechnicalRequirements", "extractPerformanceRequirements",
      "extractSecurityRequirements", "extractScalabilityRequirements",
      "parseConstraints", "categorizeConstraint" }

\* the methods parseMarkdown calls on this, in the order it evaluates them
parseMarkdownCalls ==
    << "extractSections", "findTitle", "parseFeaturesList", "parseUserStories",
       "parseAcceptanceCriteria", "parseTechnicalRequirements", "parseConstraints",
       "parseTimeline", "parseResources", "extractComponents", "extractIntegrations",
       "extractUserRoles", "extractPages", "analyzeComplexity", "extractDomains",
       "extractPatterns", "extractRequirements" >>

\* calling a method the class does not define is a TypeError; the files of the
\* model have no heading, so no section and no title is found in them
parseMarkdown(content) ==
    LET missing == {i \in 1..Len(parseMarkdownCalls) :
                       parseMarkdownCalls[i] \notin PRDParserMethods}
        first == CHOOSE i \in missing : \A j \in missing : i <= j
    IN  IF missing # {}
            THEN ParseFailed("this." \o parseMarkdownCalls[first] \o " is not a function")
            ELSE Parsed([ parseDescription(content) EXCEPT
                            !.title = "Untitled Project",
                            !.overview = "",
                            !.features = <<>>,
                            !.technicalRequirements =
                                [security |-> FALSE, scalability |-> Undefined] ])

detectFileType(filePath) ==
    CASE extension(filePath) \in {"md", "markdown"} -> "markdown"
      [] extension(filePath) = "txt" -> "text"
      [] OTHER -> "unknown"

\* every error inside parseFile is rethrown with the prefix
parseFile(filePath) ==
    LET fileType == detectFileType(filePath)
        result ==
            IF ~FileExists(filePath)
                THEN ParseFailed("ENOENT: no such file or directory, open '"
                                 \o filePath \o "'")
            ELSE CASE fileType = "markdown" -> parseMarkdown(FileContent(filePath))
                   [] fileType = "text" -> Parsed(parseText(FileContent(filePath)))
                   [] OTHER -> ParseFailed("Unsupported file type: " \o fileType)
    IN  IF result.ok THEN result
        ELSE ParseFailed("Failed to parse PRD file: " \o result.message)

\* WorkflowGenerator.parseInput
parseInput(in) ==
    IF inputIncludes(in, ".md") \/ inputIncludes(in, ".txt") \/ inputIncludes(in, "/")
        THEN parseFile(in)
        ELSE Parsed(parseDescription(in))

(***************************************************************************)
(* DependencyAnalyzer.  No persona sets task.dependencies or task.critical, *)
(* so the branches that read them add nothing.                             *)
(***************************************************************************)
\* the tasks of all phases, in order
allTasks(workflow) ==
    Flatten([i \in 1..Len(workflow.phases) |-> workflow.phases[i].tasks])

\* task.dependencies of a task that has the field; the tasks the personas build
\* have none
declaredDependencies(task) ==
    IF "dependencies" \in DOMAIN task THEN task.dependencies ELSE <<>>

\* the entry pushed for phaseIndex = k > 0: phase k + 1 of the plan on phase k
phaseDependency(workflow, k) ==
    [ name |-> workflow.phases[k + 1].name \o " depends on " \o workflow.phases[k].name,
      type |-> "phase",
      critical |-> TRUE,
      description |-> "Phase " \o ToStr(k + 1) \o " cannot start until Phase "
                      \o ToStr(k) \o " is complete" ]

\* task.dependencies.forEach(dep => dependencies.push({...}))
taskDependencies(task) ==
    [ d \in 1..Len(declaredDependencies(task)) |->
        [ name |-> task.title \o " depends on " \o declaredDependencies(task)[d],
          type |-> "task",
          critical |-> task.priority = "high",
          description |-> "Task requires completion of " \o declaredDependencies(task)[d] ] ]

\* the phase entries alone
analyzeInternalDependenciesPhasesOnly(workflow) ==
    [ k \in 1..(IF Len(workflow.phases) = 0 THEN 0 ELSE Len(workflow.phases) - 1) |->
        phaseDependency(workflow, k) ]

analyzeInternalDependencies(workflow) ==
    Flatten([ i \in 1..Len(workflow.phases) |->
                (IF i > 1 THEN <<phaseDependency(workflow, i - 1)>> ELSE <<>>)
                \o Flatten([ j \in 1..Len(workflow.phases[i].tasks) |->
                               taskDependencies(workflow.phases[i].tasks[j]) ]) ])

\* services.find(service => text.includes(service)) over title + ' ' + description
extractServiceName(title, description) ==
    LET services == <<"stripe", "paypal", "aws", "google", "facebook", "twitter", "github">>
        found == SelectSeq(services,
                     LAMBDA service : \/ lowerIncludes(title, service)
                                      \/ (description # Undefined
                                          /\ lowerIncludes(description, service)))
    IN  IF found = <<>> THEN <<>> ELSE <<Head(found)>>

isExternalService(tool) ==
    toLowerCase(tool) \in {"stripe", "paypal", "twilio", "sendgrid", "aws", "gcp", "azure"}

isServiceCritical(service) ==
    \E critical \in {"payment", "auth", "database", "storage"} :
        lowerIncludes(service, critical)

assessServiceRisk(service) ==
    IF \E risk \in {"payment", "financial", "banking"} : lowerIncludes(service, risk)
        THEN "high"
    ELSE IF \E risk \in {"email", "sms", "notification"} : lowerIncludes(service, risk)
        THEN "medium"
    ELSE "low"

\* s.includes('integrate'), in the case s is written in: of the strings of the
\* model that hold the word, these two hold it capitalised
includesIntegrate(s) ==
    /\ lowerIncludes(s, "integrate")
    /\ s \notin {"Integrate with Stripe service", "Integrate with payment service"}

analyzeExternalDependencies(workflow) ==
    LET tasks == allTasks(workflow)
        ofTask(task) ==
            (IF task.type = "integration" \/ includesIntegrate(task.title)
                THEN extractServiceName(task.title, task.description) ELSE <<>>)
            \o SelectSeq(task.tools, isExternalService)
        externalServices ==
            SetAddAll(<<>>, Flatten([i \in 1..Len(tasks) |-> ofTask(tasks[i])]))
    IN  [ i \in 1..Len(externalServices) |->
            [ name |-> externalServices[i],
              type |-> "external-service",
              critical |-> isServiceCritical(externalServices[i]),
              description |-> "Integration with " \o externalServices[i] \o " service",
              riskLevel |-> assessServiceRisk(externalServices[i]) ] ]

isTechnicalDependency(tool) ==
    toLowerCase(tool) \in {"react", "vue", "angular", "node", "express", "django",
                           "rails", "spring"}

extractTechnologies(text) ==
    SelectSeq(<<"react", "vue", "angular", "node", "express", "mongodb", "postgresql",
                "redis">>,
              LAMBDA tech : text # Undefined /\ lowerIncludes(text, tech))

isTechCritical(tech) ==
    \E critical \in {"database", "framework", "authentication"} :
        lowerIncludes(tech, critical)

suggestVersion(tech) ==
    CASE toLowerCase(tech) = "react" -> "^18.0.0"
      [] toLowerCase(tech) = "vue" -> "^3.0.0"
      [] toLowerCase(tech) = "angular" -> "^16.0.0"
      [] toLowerCase(tech) = "node" -> "^18.0.0"
      [] toLowerCase(tech) = "express" -> "^4.18.0"
      [] OTHER -> "latest"

analyzeTechnicalDependencies(workflow) ==
    LET tasks == allTasks(workflow)
        ofTask(task) == SelectSeq(task.tools, isTechnicalDependency)
                        \o extractTechnologies(task.description)
        technologies == SetAddAll(<<>>, Flatten([i \in 1..Len(tasks) |-> ofTask(tasks[i])]))
    IN  [ i \in 1..Len(technologies) |->
            [ name |-> technologies[i],
              type |-> "technical",
              critical |-> isTechCritical(technologies[i]),
              description |-> "Framework/library dependency: " \o technologies[i],
              version |-> suggestVersion(technologies[i]) ] ]

identifyRequiredSkills(phase) ==
    CASE phase.type = "frontend" -> <<"React", "Vue", "Angular", "CSS", "JavaScript">>
      [] phase.type = "backend" -> <<"Node.js", "Python", "Java", "Database">>
      [] phase.type = "infrastructure" -> <<"DevOps", "Docker", "Kubernetes", "AWS">>
      [] phase.type = "security" -> <<"Security", "Cryptography", "OAuth">>
      [] phase.type = "design" -> <<"UI/UX", "Design", "Figma">>
      [] OTHER -> <<>>

isSkillCritical(skill) == skill \in {"Security", "Database", "DevOps"}

analyzeTeamDependencies(workflow) ==
    Flatten([ i \in 1..Len(workflow.phases) |->
        LET phase == workflow.phases[i]
            requiredSkills == identifyRequiredSkills(phase)
        IN  [ j \in 1..Len(requiredSkills) |->
                [ name |-> requiredSkills[j] \o " expertise required",
                  type |-> "team-skill",
                  critical |-> isSkillCritical(requiredSkills[j]),
                  description |-> "Phase \"" \o phase.name \o "\" requires "
                                  \o requiredSkills[j] \o " expertise" ] ] ])

isInfrastructureTool(tool) ==
    toLowerCase(tool) \in {"docker", "kubernetes", "terraform", "ansible", "aws", "gcp",
                           "azure"}

analyzeInfrastructureDependencies(workflow) ==
    LET phases == SelectSeq(workflow.phases,
                      LAMBDA phase : phase.type \in {"deployment", "infrastructure"})
        tasks == Flatten([i \in 1..Len(phases) |-> phases[i].tasks])
        infrastructure ==
            SetAddAll(<<>>, Flatten([i \in 1..Len(tasks) |->
                                SelectSeq(tasks[i].tools, isInfrastructureTool)]))
    IN  [ i \in 1..Len(infrastructure) |->
            [ name |-> infrastructure[i],
              type |-> "infrastructure",
              critical |-> TRUE,
              description |-> "Infrastructure requirement: " \o infrastructure[i] ] ]

identifyCriticalPath(workflow) ==
    LET criticalTasks(phase) ==
            LET high == SelectSeq(phase.tasks, LAMBDA task : task.priority = "high")
            IN  [j \in 1..Len(high) |-> high[j].title]
        phases == SelectSeq(workflow.phases, LAMBDA phase : criticalTasks(phase) # <<>>)
    IN  [ i \in 1..Len(phases) |->
            [ phase |-> phases[i].name,
              tasks |-> criticalTasks(phases[i]),
              duration |-> phases[i].duration ] ]

identifyBottlenecks(workflow) ==
    LET phases == SelectSeq(workflow.phases, LAMBDA phase : Len(phase.tasks) > 5)
    IN  [ i \in 1..Len(phases) |->
            [ type |-> "complexity",
              location |-> phases[i].name,
              description |-> "Phase has " \o ToStr(Len(phases[i].tasks))
                              \o " tasks - potential complexity bottleneck",
              recommendation |-> "Consider breaking into smaller phases" ] ]

\* DependencyAnalyzer.analyze
analyze(workflow) ==
    [ internal |-> analyzeInternalDependencies(workflow),
      external |-> analyzeExternalDependencies(workflow),
      technical |-> analyzeTechnicalDependencies(workflow),
      team |-> analyzeTeamDependencies(workflow),
      infrastructure |-> analyzeInfrastructureDependencies(workflow),
      criticalPath |-> identifyCriticalPath(workflow),
      bottlenecks |-> identifyBottlenecks(workflow) ]

(***************************************************************************)
(* RiskAssessment.  The rules whose helper returns a constant ([] or false *)
(* in the code) add nothing: New Technology Adoption, Critical Path        *)
(* Dependencies, Resource Availability, Third-Party Security, Skill Gaps,  *)
(* Insufficient Team Size.                                                 *)
(***************************************************************************)
\* the key names JSON.stringify writes for a workflow a persona made
workflowKeys ==
    { "title", "strategy", "persona", "phases", "metadata", "estimatedDuration",
      "complexity", "riskLevel", "mcpRecommendations", "primary", "secondary",
      "avoided", "rationale", "qualityGates", "bestPractices", "name", "type",
      "duration", "tasks", "description", "tools", "estimatedHours", "deliverables",
      "priority", "acceptanceCriteria", "storyPoints" }

\* the key names of what a pass attaches
attachmentKeys(key) ==
    CASE key = "dependencies" ->
          { "dependencies", "internal", "external", "technical", "team",
            "infrastructure", "criticalPath", "bottlenecks", "name", "type",
            "critical", "description", "riskLevel", "version", "phase", "tasks",
            "duration", "location", "recommendation" }
      [] key = "risks" ->
          { "risks", "technical", "timeline", "security", "business", "resource",
            "summary", "mitigation", "total", "byCategory", "byImpact",
            "byProbability", "riskScore", "topRisks", "immediate", "shortTerm",
            "longTerm", "monitoring", "risk", "action", "priority", "indicators",
            "frequency", "name", "category", "probability", "impact", "description",
            "low", "medium", "high", "critical", "certain" }
      [] key = "parallelStreams" -> {"parallelStreams", "name", "tasks", "canRunInParallel"}
      [] key = "milestones" -> {"milestones", "name", "description", "phase", "criteria"}

\* the strings JSON.stringify writes for the dependency lists of the workflow,
\* a template string being cut at its joints: each joint has a space or a
\* quote where no keyword has one, so no keyword lies across a joint
dependencyStrings(workflow) ==
    LET dependencies == workflow.dependencies
        plain == dependencies.external \o dependencies.technical
                 \o dependencies.infrastructure
        phases == workflow.phases
    IN  UNION {{plain[i].name, plain[i].type} : i \in 1..Len(plain)}
        \cup (IF dependencies.internal # <<>>
                 THEN {phases[i].name : i \in 1..Len(phases)}
                      \cup {" depends on ", "phase", "Phase ", " cannot start until Phase ",
                            " is complete"}
                 ELSE {})
        \cup (IF dependencies.external # <<>> THEN {"Integration with ", " service"} ELSE {})
        \cup {dependencies.external[i].riskLevel : i \in 1..Len(dependencies.external)}
        \cup (IF dependencies.technical # <<>> THEN {"Framework/library dependency: "} ELSE {})
        \cup {dependencies.technical[i].version : i \in 1..Len(dependencies.technical)}
        \cup UNION {(IF identifyRequiredSkills(phases[i]) # <<>>
                        THEN {phases[i].name, "team-skill", " expertise required", "Phase ",
                              " requires ", " expertise"}
                        ELSE {})
                    \cup Range(identifyRequiredSkills(phases[i])) : i \in 1..Len(phases)}
        \cup (IF dependencies.infrastructure # <<>>
                 THEN {"Infrastructure requirement: "} ELSE {})
        \cup UNION {{dependencies.criticalPath[i].phase,
                     dependencies.criticalPath[i].duration}
                    \cup Range(dependencies.criticalPath[i].tasks)
                       : i \in 1..Len(dependencies.criticalPath)}
        \cup UNION {{dependencies.bottlenecks[i].type, dependencies.bottlenecks[i].location,
                     "Phase has ", " tasks - potential complexity bottleneck",
                     dependencies.bottlenecks[i].recommendation}
                       : i \in 1..Len(dependencies.bottlenecks)}

\* the strings JSON.stringify writes for the risk lists, the summary's top
\* risks and the mitigation plan, cut at the joints likewise
riskStrings(risks) ==
    LET allRisks == risks.technical \o risks.timeline \o risks.security
                    \o risks.business \o risks.resource
        plan == risks.mitigation.immediate \o risks.mitigation.shortTerm
                \o risks.mitigation.longTerm
    IN  UNION {{allRisks[i].name, allRisks[i].category, allRisks[i].probability,
                allRisks[i].impact, allRisks[i].description, allRisks[i].mitigation}
               \cup (IF allRisks[i].name = "Multiple External Integrations"
                        THEN {" external integrations"}
                        ELSE Range(allRisks[i].indicators)) : i \in 1..Len(allRisks)}
        \cup UNION {{plan[i].risk, plan[i].action, plan[i].priority} : i \in 1..Len(plan)}
        \cup {risks.mitigation.monitoring[i].frequency
                 : i \in 1..Len(risks.mitigation.monitoring)}

\* the strings JSON.stringify writes for the tasks of the phases
taskStrings(phases) ==
    UNION { {task.type, task.title, task.description, task.priority}
            \cup Range(task.tools) \cup Range(task.deliverables)
               : task \in UNION {Range(phases[i].tasks) : i \in 1..Len(phases)} }

\* the key names and string values inside JSON.stringify(workflow); a keyword
\* has no quote, colon or comma, so it is found inside one of them or not at all
workflowStrings(workflow) ==
    ( workflowKeys
      \cup {workflow.title, workflow.strategy, workflow.persona,
            workflow.metadata.estimatedDuration, workflow.metadata.riskLevel,
            workflow.mcpRecommendations.primary,
            workflow.mcpRecommendations.secondary,
            workflow.mcpRecommendations.avoided,
            " persona optimized for ", " integration"}
      \cup Range(workflow.qualityGates)
      \cup Range(workflow.bestPractices)
      \cup Range(workflow.acceptanceCriteria)
      \cup classEnhancementText(ClassOf(workflow.persona))
      \cup UNION {{phase.name, phase.type, phase.duration, phase.estimatedDuration}
                     : phase \in Range(workflow.phases)}
      \cup taskStrings(workflow.phases)
      \cup UNION {attachmentKeys(key) : key \in workflow.attached}
      \cup (IF "dependencies" \in workflow.attached
               THEN dependencyStrings(workflow) ELSE {})
      \cup (IF "risks" \in workflow.attached THEN riskStrings(workflow.risks) ELSE {})
      \cup (IF "parallelStreams" \in workflow.attached /\ workflow.parallelStreams # <<>>
               THEN {"Independent Development"} ELSE {})
      \cup (IF "milestones" \in workflow.attached /\ workflow.phases # <<>>
               THEN {" Complete", "All tasks in ", " phase completed"} ELSE {}) )
    \ {Undefined}

\* keywords.some(keyword => JSON.stringify(workflow).toLowerCase().includes(keyword))
hasKeyword(workflow, keywords) ==
    \E s \in workflowStrings(workflow) : \E keyword \in keywords : lowerIncludes(s, keyword)

countIntegrations(workflow) ==
    Len(SelectSeq(allTasks(workflow),
                  LAMBDA task : \/ task.type = "integration"
                                \/ lowerIncludes(task.title, "integrate")))

hasPerformanceRequirements(workflow) ==
    hasKeyword(workflow, {"performance", "speed", "fast", "optimization", "scalability"})

hasSecurityRequirements(workflow) ==
    hasKeyword(workflow, {"auth", "security", "encrypt", "privacy", "compliance"})

handlessensitiveData(workflow) ==
    hasKeyword(workflow, {"user data", "payment", "personal", "pii", "financial"})

\* a faulty variant: a dependency on something external counts as well
isMarketSensitiveExternal(workflow) ==
    hasKeyword(workflow, {"competitive", "market", "customer-facing", "public", "external"})

isMarketSensitive(workflow) ==
    hasKeyword(workflow, {"competitive", "market", "customer-facing", "public"})

\* parseInt of a duration estimateProjectDuration prints; -1 stands for NaN
parseInt(s) ==
    LET ns == {n \in 0..99 : s \in {ToStr(n) \o " weeks", ToStr(n) \o " month",
                                    ToStr(n) \o " months"}}
    IN  IF ns = {} THEN -1 ELSE CHOOSE n \in ns : TRUE

hasAggressiveTimeline(workflow) ==
    LET duration == workflow.metadata.estimatedDuration
    IN  /\ duration # Undefined
        /\ lowerIncludes(duration, "week")
        /\ parseInt(duration) >= 0
        /\ parseInt(duration) <= 4

\* description, indicators and mitigation of the risk record of the name
riskText(name) ==
    CASE name = "High Technical Complexity" ->
          [ description |-> "High system complexity may lead to implementation challenges",
            indicators |-> << "Complex architecture", "Multiple integrations",
                              "Advanced features" >>,
            mitigation |->
                "Break down into smaller components, conduct proof-of-concepts" ]
      [] name = "Multiple External Integrations" ->
          [ description |-> "Multiple external integrations increase failure points",
            indicators |-> <<>>,
            mitigation |->
                "Implement circuit breakers, fallback mechanisms, thorough testing" ]
      [] name = "Performance Requirements" ->
          [ description |-> "Strict performance requirements may be challenging to meet",
            indicators |-> << "Performance-critical features",
                              "Scalability requirements" >>,
            mitigation |->
                "Early performance testing, optimization sprints, monitoring" ]
      [] name = "Aggressive Timeline" ->
          [ description |-> "Timeline may be too aggressive for scope of work",
            indicators |-> << "Short duration", "High complexity", "Multiple phases" >>,
            mitigation |->
                "Reduce scope, parallel development, additional resources" ]
      [] name = "Security Implementation" ->
          [ description |-> "Security implementation errors could expose system",
            indicators |-> << "Authentication required", "Data protection",
                              "Compliance needs" >>,
            mitigation |->
                "Security review, penetration testing, security training" ]
      [] name = "Sensitive Data Handling" ->
          [ description |-> "Improper handling of sensitive data could cause breaches",
            indicators |-> << "User data", "Payment information", "Personal data" >>,
            mitigation |->
                "Encryption, access controls, data minimization, compliance audit" ]
      [] name = "Scope Creep" ->
          [ description |-> "Requirements may expand during development",
            indicators |-> << "Evolving requirements", "Stakeholder changes" >>,
            mitigation |->
                "Clear scope definition, change control process, regular reviews" ]
      [] name = "Market Changes" ->
          [ description |-> "Market conditions may change during development",
            indicators |-> << "Competitive product", "Market-driven features" >>,
            mitigation |->
                "Regular market analysis, flexible architecture, MVP approach" ]
      [] name = "Stakeholder Alignment" ->
          [ description |-> "Stakeholders may have conflicting priorities",
            indicators |-> << "Multiple stakeholders", "Complex requirements" >>,
            mitigation |->
                "Regular communication, clear decision-making process" ]
      [] name = "Key Person Dependency" ->
          [ description |-> "Project may be dependent on key individuals",
            indicators |-> << "Specialized knowledge", "Single points of failure" >>,
            mitigation |->
                "Knowledge sharing, documentation, cross-training" ]

\* a risk record; the rule that counts integrations writes its own indicators
Risk(name, category, probability, impact) ==
    [ name |-> name, category |-> category, probability |-> probability,
      impact |-> impact, description |-> riskText(name).description,
      indicators |-> riskText(name).indicators,
      mitigation |-> riskText(name).mitigation ]

assessTechnicalRisks(workflow) ==
    (IF workflow.metadata.complexity > 7000
        THEN <<Risk("High Technical Complexity", "technical", "high", "high")>> ELSE <<>>)
    \o (IF countIntegrations(workflow) > 3
        THEN << [ Risk("Multiple External Integrations", "technical", "medium", "high")
                    EXCEPT !.indicators = << ToStr(countIntegrations(workflow))
                                             \o " external integrations" >> ] >>
        ELSE <<>>)
    \o (IF hasPerformanceRequirements(workflow)
        THEN <<Risk("Performance Requirements", "technical", "medium", "high")>> ELSE <<>>)

assessTimelineRisks(workflow) ==
    IF hasAggressiveTimeline(workflow)
        THEN <<Risk("Aggressive Timeline", "timeline", "high", "high")>> ELSE <<>>

assessSecurityRisks(workflow) ==
    (IF hasSecurityRequirements(workflow)
        THEN <<Risk("Security Implementation", "security", "medium", "critical")>>
        ELSE <<>>)
    \o (IF handlessensitiveData(workflow)
        THEN <<Risk("Sensitive Data Handling", "security", "medium", "critical")>>
        ELSE <<>>)

\* a faulty variant: the two rules without a condition are left out
assessBusinessRisksConditional(workflow) ==
    IF isMarketSensitive(workflow)
        THEN <<Risk("Market Changes", "business", "medium", "medium")>> ELSE <<>>

assessBusinessRisks(workflow) ==
    <<Risk("Scope Creep", "business", "high", "medium")>>
    \o (IF isMarketSensitive(workflow)
        THEN <<Risk("Market Changes", "business", "medium", "medium")>> ELSE <<>>)
    \o <<Risk("Stakeholder Alignment", "business", "medium", "medium")>>

assessResourceRisks(workflow) ==
    <<Risk("Key Person Dependency", "resource", "low", "high")>>

riskCategories == <<"technical", "timeline", "security", "business", "resource">>

impactLevels == [low |-> 1, medium |-> 2, high |-> 3, critical |-> 4]
probabilityLevels == [low |-> 1, medium |-> 2, high |-> 3, certain |-> 4]

\* impactScore * probabilityScore
riskScoreOf(risk) == impactLevels[risk.impact] * probabilityLevels[risk.probability]

\* Array.prototype.sort((a, b) => b.riskScore - a.riskScore): stable, descending
RECURSIVE sortByScore(_)
sortByScore(risks) ==
    IF risks = <<>> THEN <<>>
    ELSE LET top == CHOOSE i \in 1..Len(risks) :
                        /\ \A j \in 1..Len(risks) : riskScoreOf(risks[j]) <= riskScoreOf(risks[i])
                        /\ \A j \in 1..(i - 1) : riskScoreOf(risks[j]) < riskScoreOf(risks[i])
         IN  <<risks[top]>>
             \o sortByScore(SubSeq(risks, 1, top - 1) \o SubSeq(risks, top + 1, Len(risks)))

\* riskScore is the mean, in hundredths, rounded down
generateRiskSummary(allRisks) ==
    [ total |-> Len(allRisks),
      byCategory |-> [c \in Range(riskCategories) |->
                         Len(SelectSeq(allRisks, LAMBDA risk : risk.category = c))],
      byImpact |-> [l \in DOMAIN impactLevels |->
                       Len(SelectSeq(allRisks, LAMBDA risk : risk.impact = l))],
      byProbability |-> [l \in DOMAIN probabilityLevels |->
                            Len(SelectSeq(allRisks, LAMBDA risk : risk.probability = l))],
      riskScore |-> (SumSeq([i \in 1..Len(allRisks) |-> riskScoreOf(allRisks[i])]) * 100)
                    \div Max(Len(allRisks), 1),
      topRisks |-> Slice(sortByScore(allRisks), 5) ]

\* thresholds that exclude their own value: riskScore > 9, riskScore > 6
generateMitigationPlanAbove(allRisks) ==
    LET bucket(low, high, priority) ==
            LET in == SelectSeq(allRisks, LAMBDA risk : /\ riskScoreOf(risk) > low
                                                        /\ riskScoreOf(risk) <= high)
            IN  [i \in 1..Len(in) |-> [ risk |-> in[i].name, action |-> in[i].mitigation,
                                         priority |-> priority ]]
    IN  [ immediate |-> bucket(9, 16, "critical"),
          shortTerm |-> bucket(6, 9, "high"),
          longTerm |-> bucket(0, 6, "medium"),
          monitoring |-> [i \in 1..Len(allRisks) |->
                             [ risk |-> allRisks[i].name,
                               indicators |-> allRisks[i].indicators,
                               frequency |-> IF riskScoreOf(allRisks[i]) > 6
                                                 THEN "weekly" ELSE "monthly" ]] ]

generateMitigationPlan(allRisks) ==
    LET bucket(low, high, priority) ==
            LET in == SelectSeq(allRisks, LAMBDA risk : /\ riskScoreOf(risk) >= low
                                                        /\ riskScoreOf(risk) < high)
            IN  [i \in 1..Len(in) |-> [ risk |-> in[i].name, action |-> in[i].mitigation,
                                         priority |-> priority ]]
    IN  [ immediate |-> bucket(9, 17, "critical"),
          shortTerm |-> bucket(6, 9, "high"),
          longTerm |-> bucket(0, 6, "medium"),
          monitoring |-> [i \in 1..Len(allRisks) |->
                             [ risk |-> allRisks[i].name,
                               indicators |-> allRisks[i].indicators,
                               frequency |-> IF riskScoreOf(allRisks[i]) >= 6
                                                 THEN "weekly" ELSE "monthly" ]] ]

\* RiskAssessment.assess
assess(workflow) ==
    LET technical == assessTechnicalRisks(workflow)
        timeline == assessTimelineRisks(workflow)
        security == assessSecurityRisks(workflow)
        business == assessBusinessRisks(workflow)
        resource == assessResourceRisks(workflow)
        allRisks == technical \o timeline \o security \o business \o resource
    IN  [ technical |-> technical, timeline |-> timeline, security |-> security,
          business |-> business, resource |-> resource,
          summary |-> generateRiskSummary(allRisks),
          mitigation |-> generateMitigationPlan(allRisks) ]

(***************************************************************************)
(* WorkflowGenerator: the enrichment passes                                *)
(***************************************************************************)
taskTypeHours ==
    << <<"design", 4>>, <<"implement", 8>>, <<"test", 3>>, <<"deploy", 2>>,
       <<"review", 2>>, <<"setup", 3>>, <<"integrate", 6>>, <<"optimize", 5>> >>

\* the hours of the first type found in (task.description || task.title || '')
estimateTaskTime(task) ==
    LET description == IF task.description # Undefined THEN task.description ELSE task.title
        found == SelectSeq(taskTypeHours, LAMBDA th : lowerIncludes(description, th[1]))
    IN  IF found = <<>> THEN 5 ELSE Head(found)[2]

estimatePhaseTime(phase) ==
    LET days == CeilDiv(Len(phase.tasks) * 8, 8)
        weeks == CeilDiv(days, 5)
    IN  IF days <= 5 THEN ToStr(days) \o " days"
        ELSE ToStr(weeks) \o " week" \o (IF weeks > 1 THEN "s" ELSE "")

\* a copy of the workflow with new phase and task objects
addTimeEstimates(workflow) ==
    [ workflow EXCEPT !.phases =
        [ i \in 1..Len(workflow.phases) |->
            [ workflow.phases[i] EXCEPT
                !.estimatedDuration = estimatePhaseTime(workflow.phases[i]),
                !.tasks = [ j \in 1..Len(workflow.phases[i].tasks) |->
                              [ workflow.phases[i].tasks[j] EXCEPT
                                  !.estimatedHours =
                                      estimateTaskTime(workflow.phases[i].tasks[j]) ] ] ] ] ]

\* phase.tasks.filter(task => !task.dependencies?.length)
identifyParallelStreams(workflow) ==
    LET independentTasks ==
            SelectSeq(allTasks(workflow), LAMBDA task : declaredDependencies(task) = <<>>)
    IN  IF Len(independentTasks) > 1
            THEN << [ name |-> "Independent Development",
                      tasks |-> independentTasks,
                      canRunInParallel |-> TRUE ] >>
            ELSE <<>>

createMilestones(workflow) ==
    [ i \in 1..Len(workflow.phases) |->
        [ name |-> workflow.phases[i].name \o " Complete",
          description |-> "All tasks in " \o workflow.phases[i].name \o " phase completed",
          phase |-> i,
          criteria |-> [j \in 1..Len(workflow.phases[i].tasks) |->
                           workflow.phases[i].tasks[j].title] ] ]

\* WorkflowGenerator.enhanceWorkflow: attached holds the keys the passes added;
\* a key that is not attached is absent from the object
enhanceWorkflow(workflow, opts) ==
    LET estimated == IF opts.includeEstimates THEN addTimeEstimates(workflow) ELSE workflow
    IN  [ title |-> estimated.title,
          strategy |-> estimated.strategy,
          persona |-> estimated.persona,
          phases |-> estimated.phases,
          metadata |-> estimated.metadata,
          mcpRecommendations |-> estimated.mcpRecommendations,
          qualityGates |-> estimated.qualityGates,
          bestPractices |-> estimated.bestPractices,
          enhancements |-> estimated.enhancements,
          acceptanceCriteria |-> estimated.acceptanceCriteria,
          attached |-> (IF opts.includeDependencies THEN {"dependencies"} ELSE {})
                       \cup (IF opts.includeRisks THEN {"risks"} ELSE {})
                       \cup (IF opts.enableParallel THEN {"parallelStreams"} ELSE {})
                       \cup (IF opts.includeMilestones THEN {"milestones"} ELSE {}),
          dependencies |-> IF opts.includeDependencies THEN analyze(workflow)
                           ELSE NotAttached,
          risks |-> IF opts.includeRisks THEN assess(workflow) ELSE NotAttached,
          parallelStreams |-> IF opts.enableParallel THEN identifyParallelStreams(estimated)
                              ELSE <<>>,
          milestones |-> IF opts.includeMilestones THEN createMilestones(estimated)
                         ELSE <<>> ]

(***************************************************************************)
(* QualityGates.  A gate's score is an IEEE-754 double: h is the nearest   *)
(* hundredth and e the distance of the double from the double of h / 100,  *)
(* in units of 2^-55.  1.0 - 0.3 - 0.2 is [h |-> 50, e |-> -2], the double *)
(* 0.49999999999999994.                                                    *)
(***************************************************************************)
gates ==
    << [name |-> "Requirements Validation", weight |-> 20],
       [name |-> "Architecture Review", weight |-> 15],
       [name |-> "Security Assessment", weight |-> 15],
       [name |-> "Performance Validation", weight |-> 15],
       [name |-> "Testing Strategy", weight |-> 15],
       [name |-> "Documentation Review", weight |-> 10],
       [name |-> "Risk Assessment", weight |-> 10] >>

passingScore == 80

Double(h, e) == [h |-> h, e |-> e]

\* x - y of doubles, y being penalty / 100: the differences the gates compute,
\* as <<x.h, x.e, penalty, (x - y).h, (x - y).e>>
FloatMinusTable ==
    { <<100, 0, 10, 90, 0>>, <<100, 0, 20, 80, 0>>, <<100, 0, 30, 70, 0>>,
      <<100, 0, 40, 60, 0>>, <<100, 0, 50, 50, 0>>, <<90, 0, 20, 70, 0>>,
      <<90, 0, 30, 60, 4>>, <<80, 0, 10, 70, 4>>, <<80, 0, 20, 60, 4>>,
      <<70, 0, 10, 60, 0>>, <<70, 0, 20, 50, -2>>, <<70, 0, 30, 40, -2>>,
      <<60, 0, 20, 40, -2>>, <<60, 0, 30, 30, 0>>, <<60, 4, 10, 50, 4>>,
      <<60, 4, 20, 40, 2>>, <<50, -2, 10, 40, -4>>, <<50, -2, 20, 30, -2>>,
      <<50, 0, 20, 30, 0>>, <<50, 0, 30, 20, 0>>, <<40, -2, 10, 30, -2>>,
      <<40, -2, 20, 20, -2>>, <<40, 2, 20, 20, 2>>, <<30, -2, 10, 20, -3>>,
      <<30, 0, 30, 0, 0>>, <<20, -2, 10, 10, -2>>, <<20, -2, 20, 0, -2>>,
      <<20, 0, 20, 0, 0>> }

\* score -= penalty / 100
minus(score, penalty) ==
    LET row == CHOOSE r \in FloatMinusTable :
                   r[1] = score.h /\ r[2] = score.e /\ r[3] = penalty
    IN  Double(row[4], row[5])

\* score < hundredths / 100
lessThan(score, hundredths) ==
    score.h < hundredths \/ (score.h = hundredths /\ score.e < 0)

\* Math.max(0, score)
atLeastZero(score) == IF lessThan(score, 0) THEN Double(0, 0) ELSE score

\* a check of a gate: the issue it reports when it fails and what it costs
Check(failed, penalty, issue) == [failed |-> failed, penalty |-> penalty, issue |-> issue]

\* the score after the checks, in order
RECURSIVE deduct(_, _)
deduct(score, checks) ==
    IF checks = <<>> THEN score
    ELSE deduct(IF Head(checks).failed THEN minus(score, Head(checks).penalty) ELSE score,
                Tail(checks))

\* { passed: score >= 0.8, score: Math.max(0, score), issues, recommendations }
gateReturn(score, failed, recommendation) ==
    [ passed |-> ~lessThan(score, 80),
      score |-> atLeastZero(score),
      issues |-> [i \in 1..Len(failed) |-> failed[i].issue],
      recommendations |-> IF failed # <<>> THEN <<recommendation>> ELSE <<>> ]

\* what a gate returns after its checks
GateResult(checks, recommendation) ==
    gateReturn(deduct(Double(100, 0), checks),
               SelectSeq(checks, LAMBDA check : check.failed), recommendation)

\* JSON.stringify(workflow).toLowerCase().includes(keyword)
jsonIncludes(workflow, keyword) == hasKeyword(workflow, {keyword})

\* workflow.phases?.some(phase => phase.tasks?.some(test))
someTask(workflow, test(_)) ==
    \E i \in 1..Len(workflow.phases) :
        \E j \in 1..Len(workflow.phases[i].tasks) : test(workflow.phases[i].tasks[j])

\* a faulty variant: a workflow without phases is not penalised
validateRequirementsAnyPhases(workflow) ==
    LET tasks == allTasks(workflow)
        tasksWithoutDescription ==
            Len(SelectSeq(tasks, LAMBDA task : task.description \in {Undefined, ""}))
    IN  GateResult(
            << Check(workflow.title \in {Undefined, ""}, 10, "Missing workflow title"),
               Check(Len(tasks) > 0 /\ 2 * tasksWithoutDescription > Len(tasks), 20,
                     "Many tasks lack detailed descriptions"),
               Check(Len(workflow.acceptanceCriteria) = 0, 20,
                     "Missing acceptance criteria") >>,
            "Add missing requirements details")

validateRequirements(workflow) ==
    LET tasks == allTasks(workflow)
        tasksWithoutDescription ==
            Len(SelectSeq(tasks, LAMBDA task : task.description \in {Undefined, ""}))
    IN  GateResult(
            << Check(workflow.title \in {Undefined, ""}, 10, "Missing workflow title"),
               Check(Len(workflow.phases) = 0, 30, "No implementation phases defined"),
               Check(Len(tasks) > 0 /\ 2 * tasksWithoutDescription > Len(tasks), 20,
                     "Many tasks lack detailed descriptions"),
               Check(Len(workflow.acceptanceCriteria) = 0, 20,
                     "Missing acceptance criteria") >>,
            "Add missing requirements details")

\* the check a gate makes of a persona's own workflow, once the others are made
personaCheck(workflow, type, checks, issue) ==
    checks \o << Check(workflow.persona = type /\ lessThan(deduct(Double(100, 0), checks), 90),
                       10, issue) >>

reviewArchitecture(workflow) ==
    LET hasArchPhase ==
            \E i \in 1..Len(workflow.phases) :
                \/ workflow.phases[i].type = "architecture"
                \/ lowerIncludes(workflow.phases[i].name, "architecture")
        hasTechDecisions ==
            someTask(workflow, LAMBDA task : \/ lowerIncludes(task.title, "technology")
                                             \/ lowerIncludes(task.title, "framework"))
    IN  GateResult(
            personaCheck(workflow, "architect",
                << Check(~hasArchPhase, 30, "No dedicated architecture planning phase"),
                   Check(~hasTechDecisions, 20, "No technology selection tasks identified"),
                   Check(~jsonIncludes(workflow, "scalability"), 20,
                         "No scalability considerations mentioned") >>,
                "Architecture workflow should have more detailed planning"),
            "Add architecture planning tasks")

assessSecurity(workflow) ==
    LET hasSecurityTasks ==
            someTask(workflow, LAMBDA task : \/ lowerIncludes(task.title, "security")
                                             \/ lowerIncludes(task.title, "auth")
                                             \/ task.type = "security")
    IN  GateResult(
            << Check(~hasSecurityTasks, 40, "No security implementation tasks identified"),
               Check(~jsonIncludes(workflow, "auth"), 20, "No authentication considerations"),
               Check(~jsonIncludes(workflow, "validation"), 20,
                     "No input validation mentioned"),
               Check(~jsonIncludes(workflow, "encrypt"), 20,
                     "No encryption considerations") >>,
            "Add security implementation tasks")

validatePerformance(workflow) ==
    LET hasPerformanceTasks ==
            someTask(workflow, LAMBDA task : \/ lowerIncludes(task.title, "performance")
                                             \/ lowerIncludes(task.title, "optimization")
                                             \/ task.type = "optimize")
    IN  GateResult(
            << Check(~hasPerformanceTasks, 30, "No performance optimization tasks"),
               Check(~jsonIncludes(workflow, "monitor"), 30,
                     "No performance monitoring planned"),
               Check(~jsonIncludes(workflow, "load test"), 20, "No load testing planned"),
               Check(~jsonIncludes(workflow, "cach"), 20, "No caching strategy mentioned") >>,
            "Add performance optimization tasks")

\* missingTests.join(', ')
RECURSIVE joinComma(_)
joinComma(ss) ==
    IF ss = <<>> THEN ""
    ELSE IF Len(ss) = 1 THEN ss[1]
    ELSE ss[1] \o ", " \o joinComma(Tail(ss))

validateTesting(workflow) ==
    LET hasTestingPhase ==
            \E i \in 1..Len(workflow.phases) :
                \/ workflow.phases[i].type = "testing"
                \/ lowerIncludes(workflow.phases[i].name, "test")
        testTypes == <<"unit test", "integration test", "e2e test", "acceptance test">>
        missingTests == SelectSeq(testTypes, LAMBDA type : ~jsonIncludes(workflow, type))
    IN  GateResult(
            personaCheck(workflow, "qa",
                << Check(~hasTestingPhase, 30, "No dedicated testing phase"),
                   Check(Len(missingTests) > 2, 30,
                         "Missing test types: " \o joinComma(missingTests)),
                   Check(~jsonIncludes(workflow, "automat"), 20,
                         "No test automation mentioned") >>,
                "QA workflow should have comprehensive testing strategy"),
            "Add comprehensive testing strategy")

reviewDocumentation(workflow) ==
    LET tasks == allTasks(workflow)
        hasDocTasks ==
            someTask(workflow, LAMBDA task :
                \/ lowerIncludes(task.title, "document")
                \/ \E d \in Range(task.deliverables) : lowerIncludes(d, "document"))
        tasksWithDeliverables == Len(SelectSeq(tasks, LAMBDA task : task.deliverables # <<>>))
    IN  GateResult(
            << Check(~hasDocTasks, 40, "No documentation tasks identified"),
               Check(Len(tasks) > 0 /\ 2 * tasksWithDeliverables < Len(tasks), 30,
                     "Many tasks lack deliverable specifications"),
               Check(jsonIncludes(workflow, "api") /\ ~jsonIncludes(workflow, "api doc"), 30,
                     "API development without documentation planning") >>,
            "Add documentation tasks and deliverables")

\* QualityGates.assessRisks: an attached risk assessment has its seven keys
assessRisks(workflow) ==
    GateResult(
        << Check("risks" \notin workflow.attached, 50, "No risk assessment provided"),
           Check("risks" \notin workflow.attached, 30, "No risk mitigation strategies"),
           Check("dependencies" \notin workflow.attached, 20, "No dependency analysis") >>,
        "Add risk assessment and mitigation")

runGate(gateName, workflow) ==
    CASE gateName = "Requirements Validation" -> validateRequirements(workflow)
      [] gateName = "Architecture Review" -> reviewArchitecture(workflow)
      [] gateName = "Security Assessment" -> assessSecurity(workflow)
      [] gateName = "Performance Validation" -> validatePerformance(workflow)
      [] gateName = "Testing Strategy" -> validateTesting(workflow)
      [] gateName = "Documentation Review" -> reviewDocumentation(workflow)
      [] gateName = "Risk Assessment" -> assessRisks(workflow)
      [] OTHER -> [ passed |-> FALSE, score |-> Double(0, 0), issues |-> <<"Unknown gate">>,
                    recommendations |-> <<>> ]

\* the sum of the gates' weights, in hundredths
totalWeight(results) == SumSeq([i \in 1..Len(results) |-> results[i].weight])

\* the gate scores, as h and e of the seven gates in order, whose weighted
\* sum is 0.8 among the reals and 0.7999999999999999 among the doubles, added
\* in the order the code adds them
RoundsBelowPassing ==
    { <<100, 0, 100, 0, 100, 0, 100, 0, 40, -2, 70, 0, 20, 0>>, <<100, 0, 100, 0, 100, 0, 100, 0, 40, -4, 70, 0, 20, 0>>, <<100, 0, 100, 0, 100, 0, 80, 0, 60, 0, 70, 0, 20, 0>>,
      <<100, 0, 100, 0, 100, 0, 80, 0, 40, -2, 100, 0, 20, 0>>, <<100, 0, 100, 0, 100, 0, 80, 0, 40, -2, 70, 0, 50, -2>>, <<100, 0, 100, 0, 100, 0, 80, 0, 40, -4, 100, 0, 20, 0>>,
      <<100, 0, 100, 0, 100, 0, 80, 0, 40, -4, 70, 0, 50, -2>>, <<100, 0, 100, 0, 100, 0, 70, 0, 70, 4, 70, 0, 20, 0>>, <<100, 0, 100, 0, 100, 0, 70, 0, 70, 0, 70, 0, 20, 0>>,
      <<100, 0, 100, 0, 100, 0, 70, 0, 50, -2, 100, 0, 20, 0>>, <<100, 0, 100, 0, 100, 0, 70, 0, 50, -2, 70, 0, 50, -2>>, <<100, 0, 100, 0, 100, 0, 60, 4, 80, 0, 70, 0, 20, 0>>,
      <<100, 0, 100, 0, 100, 0, 60, 4, 60, 0, 100, 0, 20, 0>>, <<100, 0, 100, 0, 100, 0, 60, 4, 60, 0, 70, 0, 50, -2>>, <<100, 0, 100, 0, 100, 0, 60, 4, 40, -2, 100, 0, 50, -2>>,
      <<100, 0, 100, 0, 100, 0, 60, 4, 40, -2, 70, 0, 80, 0>>, <<100, 0, 100, 0, 100, 0, 60, 4, 40, -4, 100, 0, 50, -2>>, <<100, 0, 100, 0, 100, 0, 60, 4, 40, -4, 70, 0, 80, 0>>,
      <<100, 0, 100, 0, 100, 0, 50, -2, 70, 4, 100, 0, 20, 0>>, <<100, 0, 100, 0, 100, 0, 50, -2, 70, 4, 70, 0, 50, -2>>, <<100, 0, 100, 0, 100, 0, 50, -2, 70, 0, 100, 0, 20, 0>>,
      <<100, 0, 100, 0, 100, 0, 50, -2, 70, 0, 70, 0, 50, -2>>, <<100, 0, 100, 0, 100, 0, 50, -2, 50, -2, 100, 0, 50, -2>>, <<100, 0, 100, 0, 100, 0, 50, -2, 50, -2, 70, 0, 80, 0>>,
      <<100, 0, 100, 0, 100, 0, 40, -2, 100, 0, 70, 0, 20, 0>>, <<100, 0, 100, 0, 100, 0, 40, -2, 80, 0, 100, 0, 20, 0>>, <<100, 0, 100, 0, 100, 0, 40, -2, 80, 0, 70, 0, 50, -2>>,
      <<100, 0, 100, 0, 100, 0, 40, -2, 60, 0, 100, 0, 50, -2>>, <<100, 0, 100, 0, 100, 0, 40, -2, 60, 0, 70, 0, 80, 0>>, <<100, 0, 100, 0, 100, 0, 40, -2, 40, -2, 100, 0, 80, 0>>,
      <<100, 0, 100, 0, 100, 0, 40, -2, 40, -4, 100, 0, 80, 0>>, <<100, 0, 100, 0, 80, 0, 100, 0, 60, 0, 70, 0, 20, 0>>, <<100, 0, 100, 0, 80, 0, 100, 0, 40, -2, 100, 0, 20, 0>>,
      <<100, 0, 100, 0, 80, 0, 100, 0, 40, -2, 70, 0, 50, -2>>, <<100, 0, 100, 0, 80, 0, 100, 0, 40, -4, 100, 0, 20, 0>>, <<100, 0, 100, 0, 80, 0, 100, 0, 40, -4, 70, 0, 50, -2>>,
      <<100, 0, 100, 0, 80, 0, 80, 0, 80, 0, 70, 0, 20, 0>>, <<100, 0, 100, 0, 80, 0, 80, 0, 60, 0, 100, 0, 20, 0>>, <<100, 0, 100, 0, 80, 0, 80, 0, 60, 0, 70, 0, 50, -2>>,
      <<100, 0, 100, 0, 80, 0, 80, 0, 40, -2, 100, 0, 50, -2>>, <<100, 0, 100, 0, 80, 0, 80, 0, 40, -2, 70, 0, 80, 0>>, <<100, 0, 100, 0, 80, 0, 80, 0, 40, -4, 100, 0, 50, -2>>,
      <<100, 0, 100, 0, 80, 0, 80, 0, 40, -4, 70, 0, 80, 0>>, <<100, 0, 100, 0, 80, 0, 70, 0, 70, 4, 100, 0, 20, 0>>, <<100, 0, 100, 0, 80, 0, 70, 0, 70, 4, 70, 0, 50, -2>>,
      <<100, 0, 100, 0, 80, 0, 70, 0, 70, 0, 100, 0, 20, 0>>, <<100, 0, 100, 0, 80, 0, 70, 0, 70, 0, 70, 0, 50, -2>>, <<100, 0, 100, 0, 80, 0, 70, 0, 50, -2, 100, 0, 50, -2>>,
      <<100, 0, 100, 0, 80, 0, 70, 0, 50, -2, 70, 0, 80, 0>>, <<100, 0, 100, 0, 80, 0, 60, 4, 100, 0, 70, 0, 20, 0>>, <<100, 0, 100, 0, 80, 0, 60, 4, 80, 0, 100, 0, 20, 0>>,
      <<100, 0, 100, 0, 80, 0, 60, 4, 80, 0, 70, 0, 50, -2>>, <<100, 0, 100, 0, 80, 0, 60, 4, 60, 0, 100, 0, 50, -2>>, <<100, 0, 100, 0, 80, 0, 60, 4, 60, 0, 70, 0, 80, 0>>,
      <<100, 0, 100, 0, 80, 0, 60, 4, 40, -2, 100, 0, 80, 0>>, <<100, 0, 100, 0, 80, 0, 60, 4, 40, -4, 100, 0, 80, 0>>, <<100, 0, 100, 0, 80, 0, 50, -2, 70, 4, 100, 0, 50, -2>>,
      <<100, 0, 100, 0, 80, 0, 50, -2, 70, 4, 70, 0, 80, 0>>, <<100, 0, 100, 0, 80, 0, 50, -2, 70, 0, 100, 0, 50, -2>>, <<100, 0, 100, 0, 80, 0, 50, -2, 70, 0, 70, 0, 80, 0>>,
      <<100, 0, 100, 0, 80, 0, 50, -2, 50, -2, 100, 0, 80, 0>>, <<100, 0, 100, 0, 80, 0, 40, -2, 100, 0, 100, 0, 20, 0>>, <<100, 0, 100, 0, 80, 0, 40, -2, 100, 0, 70, 0, 50, -2>>,
      <<100, 0, 100, 0, 80, 0, 40, -2, 80, 0, 100, 0, 50, -2>>, <<100, 0, 100, 0, 80, 0, 40, -2, 80, 0, 70, 0, 80, 0>>, <<100, 0, 100, 0, 80, 0, 40, -2, 60, 0, 100, 0, 80, 0>>,
      <<100, 0, 100, 0, 80, 0, 20, -2, 100, 0, 100, 0, 50, -2>>, <<100, 0, 100, 0, 80, 0, 20, -2, 100, 0, 70, 0, 80, 0>>, <<100, 0, 100, 0, 80, 0, 20, -2, 80, 0, 100, 0, 80, 0>>,
      <<100, 0, 100, 0, 60, 4, 100, 0, 80, 0, 70, 0, 20, 0>>, <<100, 0, 100, 0, 60, 4, 100, 0, 60, 0, 100, 0, 20, 0>>, <<100, 0, 100, 0, 60, 4, 100, 0, 60, 0, 70, 0, 50, -2>>,
      <<100, 0, 100, 0, 60, 4, 100, 0, 40, -2, 100, 0, 50, -2>>, <<100, 0, 100, 0, 60, 4, 100, 0, 40, -2, 70, 0, 80, 0>>, <<100, 0, 100, 0, 60, 4, 100, 0, 40, -4, 100, 0, 50, -2>>,
      <<100, 0, 100, 0, 60, 4, 100, 0, 40, -4, 70, 0, 80, 0>>, <<100, 0, 100, 0, 60, 0, 100, 0, 80, 0, 70, 0, 20, 0>>, <<100, 0, 100, 0, 60, 0, 100, 0, 60, 0, 100, 0, 20, 0>>,
      <<100, 0, 100, 0, 60, 0, 100, 0, 60, 0, 70, 0, 50, -2>>, <<100, 0, 100, 0, 60, 0, 100, 0, 40, -2, 100, 0, 50, -2>>, <<100, 0, 100, 0, 60, 0, 100, 0, 40, -2, 70, 0, 80, 0>>,
      <<100, 0, 100, 0, 60, 0, 100, 0, 40, -4, 100, 0, 50, -2>>, <<100, 0, 100, 0, 60, 0, 100, 0, 40, -4, 70, 0, 80, 0>>, <<100, 0, 100, 0, 60, 0, 80, 0, 100, 0, 70, 0, 20, 0>>,
      <<100, 0, 100, 0, 60, 0, 80, 0, 80, 0, 100, 0, 20, 0>>, <<100, 0, 100, 0, 60, 0, 80, 0, 80, 0, 70, 0, 50, -2>>, <<100, 0, 100, 0, 60, 0, 80, 0, 60, 0, 100, 0, 50, -2>>,
      <<100, 0, 100, 0, 60, 0, 80, 0, 60, 0, 70, 0, 80, 0>>, <<100, 0, 100, 0, 60, 0, 80, 0, 40, -2, 100, 0, 80, 0>>, <<100, 0, 100, 0, 60, 0, 80, 0, 40, -4, 100, 0, 80, 0>>,
      <<100, 0, 100, 0, 60, 0, 70, 0, 70, 4, 100, 0, 50, -2>>, <<100, 0, 100, 0, 60, 0, 70, 0, 70, 4, 70, 0, 80, 0>>, <<100, 0, 100, 0, 60, 0, 70, 0, 70, 0, 100, 0, 50, -2>>,
      <<100, 0, 100, 0, 60, 0, 70, 0, 70, 0, 70, 0, 80, 0>>, <<100, 0, 100, 0, 60, 0, 70, 0, 50, -2, 100, 0, 80, 0>>, <<100, 0, 100, 0, 60, 0, 60, 4, 100, 0, 100, 0, 20, 0>>,
      <<100, 0, 100, 0, 60, 0, 60, 4, 100, 0, 70, 0, 50, -2>>, <<100, 0, 100, 0, 60, 0, 60, 4, 80, 0, 100, 0, 50, -2>>, <<100, 0, 100, 0, 60, 0, 60, 4, 80, 0, 70, 0, 80, 0>>,
      <<100, 0, 100, 0, 60, 0, 60, 4, 60, 0, 100, 0, 80, 0>>, <<100, 0, 100, 0, 60, 0, 50, -2, 70, 4, 100, 0, 80, 0>>, <<100, 0, 100, 0, 60, 0, 50, -2, 70, 0, 100, 0, 80, 0>>,
      <<100, 0, 100, 0, 60, 0, 40, -2, 100, 0, 100, 0, 50, -2>>, <<100, 0, 100, 0, 60, 0, 40, -2, 100, 0, 70, 0, 80, 0>>, <<100, 0, 100, 0, 60, 0, 40, -2, 80, 0, 100, 0, 80, 0>>,
      <<100, 0, 100, 0, 60, 0, 20, -2, 100, 0, 100, 0, 80, 0>>, <<100, 0, 100, 0, 40, 2, 100, 0, 100, 0, 70, 0, 20, 0>>, <<100, 0, 100, 0, 40, 2, 100, 0, 80, 0, 100, 0, 20, 0>>,
      <<100, 0, 100, 0, 40, 2, 100, 0, 80, 0, 70, 0, 50, -2>>, <<100, 0, 100, 0, 40, 2, 100, 0, 60, 0, 100, 0, 50, -2>>, <<100, 0, 100, 0, 40, 2, 100, 0, 60, 0, 70, 0, 80, 0>>,
      <<100, 0, 100, 0, 40, 2, 100, 0, 40, -2, 100, 0, 80, 0>>, <<100, 0, 100, 0, 40, 2, 100, 0, 40, -4, 100, 0, 80, 0>>, <<100, 0, 100, 0, 40, -2, 100, 0, 100, 0, 70, 0, 20, 0>>,
      <<100, 0, 100, 0, 40, -2, 100, 0, 80, 0, 100, 0, 20, 0>>, <<100, 0, 100, 0, 40, -2, 100, 0, 80, 0, 70, 0, 50, -2>>, <<100, 0, 100, 0, 40, -2, 100, 0, 60, 0, 100, 0, 50, -2>>,
      <<100, 0, 100, 0, 40, -2, 100, 0, 60, 0, 70, 0, 80, 0>>, <<100, 0, 100, 0, 40, -2, 100, 0, 40, -2, 100, 0, 80, 0>>, <<100, 0, 100, 0, 40, -2, 100, 0, 40, -4, 100, 0, 80, 0>>,
      <<100, 0, 100, 0, 20, -2, 100, 0, 100, 0, 100, 0, 20, 0>>, <<100, 0, 100, 0, 20, -2, 100, 0, 100, 0, 70, 0, 50, -2>>, <<100, 0, 100, 0, 20, -2, 100, 0, 80, 0, 100, 0, 50, -2>>,
      <<100, 0, 100, 0, 20, -2, 100, 0, 80, 0, 70, 0, 80, 0>>, <<100, 0, 100, 0, 20, -2, 100, 0, 60, 0, 100, 0, 80, 0>>, <<100, 0, 100, 0, 20, -2, 80, 0, 100, 0, 100, 0, 50, -2>>,
      <<100, 0, 100, 0, 20, -2, 80, 0, 100, 0, 70, 0, 80, 0>>, <<100, 0, 100, 0, 20, -2, 80, 0, 80, 0, 100, 0, 80, 0>>, <<100, 0, 80, 0, 100, 0, 100, 0, 60, 0, 70, 0, 20, 0>>,
      <<100, 0, 80, 0, 100, 0, 100, 0, 40, -2, 100, 0, 20, 0>>, <<100, 0, 80, 0, 100, 0, 100, 0, 40, -2, 70, 0, 50, -2>>, <<100, 0, 80, 0, 100, 0, 100, 0, 40, -4, 100, 0, 20, 0>>,
      <<100, 0, 80, 0, 100, 0, 100, 0, 40, -4, 70, 0, 50, -2>>, <<100, 0, 80, 0, 100, 0, 80, 0, 80, 0, 70, 0, 20, 0>>, <<100, 0, 80, 0, 100, 0, 80, 0, 60, 0, 100, 0, 20, 0>>,
      <<100, 0, 80, 0, 100, 0, 80, 0, 60, 0, 70, 0, 50, -2>>, <<100, 0, 80, 0, 100, 0, 80, 0, 40, -2, 100, 0, 50, -2>>, <<100, 0, 80, 0, 100, 0, 80, 0, 40, -2, 70, 0, 80, 0>>,
      <<100, 0, 80, 0, 100, 0, 80, 0, 40, -4, 100, 0, 50, -2>>, <<100, 0, 80, 0, 100, 0, 80, 0, 40, -4, 70, 0, 80, 0>>, <<100, 0, 80, 0, 100, 0, 70, 0, 70, 4, 100, 0, 20, 0>>,
      <<100, 0, 80, 0, 100, 0, 70, 0, 70, 4, 70, 0, 50, -2>>, <<100, 0, 80, 0, 100, 0, 70, 0, 70, 0, 100, 0, 20, 0>>, <<100, 0, 80, 0, 100, 0, 70, 0, 70, 0, 70, 0, 50, -2>>,
      <<100, 0, 80, 0, 100, 0, 70, 0, 50, -2, 100, 0, 50, -2>>, <<100, 0, 80, 0, 100, 0, 70, 0, 50, -2, 70, 0, 80, 0>>, <<100, 0, 80, 0, 100, 0, 60, 4, 100, 0, 70, 0, 20, 0>>,
      <<100, 0, 80, 0, 100, 0, 60, 4, 80, 0, 100, 0, 20, 0>>, <<100, 0, 80, 0, 100, 0, 60, 4, 80, 0, 70, 0, 50, -2>>, <<100, 0, 80, 0, 100, 0, 60, 4, 60, 0, 100, 0, 50, -2>>,
      <<100, 0, 80, 0, 100, 0, 60, 4, 60, 0, 70, 0, 80, 0>>, <<100, 0, 80, 0, 100, 0, 60, 4, 40, -2, 100, 0, 80, 0>>, <<100, 0, 80, 0, 100, 0, 60, 4, 40, -4, 100, 0, 80, 0>>,
      <<100, 0, 80, 0, 100, 0, 50, -2, 70, 4, 100, 0, 50, -2>>, <<100, 0, 80, 0, 100, 0, 50, -2, 70, 4, 70, 0, 80, 0>>, <<100, 0, 80, 0, 100, 0, 50, -2, 70, 0, 100, 0, 50, -2>>,
      <<100, 0, 80, 0, 100, 0, 50, -2, 70, 0, 70, 0, 80, 0>>, <<100, 0, 80, 0, 100, 0, 50, -2, 50, -2, 100, 0, 80, 0>>, <<100, 0, 80, 0, 100, 0, 40, -2, 100, 0, 100, 0, 20, 0>>,
      <<100, 0, 80, 0, 100, 0, 40, -2, 100, 0, 70, 0, 50, -2>>, <<100, 0, 80, 0, 100, 0, 40, -2, 80, 0, 100, 0, 50, -2>>, <<100, 0, 80, 0, 100, 0, 40, -2, 80, 0, 70, 0, 80, 0>>,
      <<100, 0, 80, 0, 100, 0, 40, -2, 60, 0, 100, 0, 80, 0>>, <<100, 0, 80, 0, 100, 0, 20, -2, 100, 0, 100, 0, 50, -2>>, <<100, 0, 80, 0, 100, 0, 20, -2, 100, 0, 70, 0, 80, 0>>,
      <<100, 0, 80, 0, 100, 0, 20, -2, 80, 0, 100, 0, 80, 0>>, <<100, 0, 80, 0, 80, 0, 100, 0, 80, 0, 70, 0, 20, 0>>, <<100, 0, 80, 0, 80, 0, 100, 0, 60, 0, 100, 0, 20, 0>>,
      <<100, 0, 80, 0, 80, 0, 100, 0, 60, 0, 70, 0, 50, -2>>, <<100, 0, 80, 0, 80, 0, 100, 0, 40, -2, 100, 0, 50, -2>>, <<100, 0, 80, 0, 80, 0, 100, 0, 40, -2, 70, 0, 80, 0>>,
      <<100, 0, 80, 0, 80, 0, 100, 0, 40, -4, 100, 0, 50, -2>>, <<100, 0, 80, 0, 80, 0, 100, 0, 40, -4, 70, 0, 80, 0>>, <<100, 0, 70, 0, 100, 0, 100, 0, 70, 4, 70, 0, 20, 0>>,
      <<100, 0, 70, 0, 100, 0, 100, 0, 70, 0, 70, 0, 20, 0>>, <<100, 0, 70, 0, 100, 0, 100, 0, 50, -2, 100, 0, 20, 0>>, <<100, 0, 70, 0, 100, 0, 100, 0, 50, -2, 70, 0, 50, -2>>,
      <<100, 0, 70, 0, 100, 0, 80, 0, 70, 4, 100, 0, 20, 0>>, <<100, 0, 70, 0, 100, 0, 80, 0, 70, 4, 70, 0, 50, -2>>, <<100, 0, 70, 0, 100, 0, 80, 0, 70, 0, 100, 0, 20, 0>>,
      <<100, 0, 70, 0, 100, 0, 80, 0, 70, 0, 70, 0, 50, -2>>, <<100, 0, 70, 0, 100, 0, 80, 0, 50, -2, 100, 0, 50, -2>>, <<100, 0, 70, 0, 100, 0, 80, 0, 50, -2, 70, 0, 80, 0>>,
      <<100, 0, 70, 0, 100, 0, 70, 0, 100, 0, 70, 0, 20, 0>>, <<100, 0, 70, 0, 100, 0, 70, 0, 80, 0, 100, 0, 20, 0>>, <<100, 0, 70, 0, 100, 0, 70, 0, 80, 0, 70, 0, 50, -2>>,
      <<100, 0, 70, 0, 100, 0, 70, 0, 60, 0, 100, 0, 50, -2>>, <<100, 0, 70, 0, 100, 0, 70, 0, 60, 0, 70, 0, 80, 0>>, <<100, 0, 70, 0, 100, 0, 70, 0, 40, -2, 100, 0, 80, 0>>,
      <<100, 0, 70, 0, 100, 0, 70, 0, 40, -4, 100, 0, 80, 0>>, <<100, 0, 70, 0, 100, 0, 60, 4, 70, 4, 100, 0, 50, -2>>, <<100, 0, 70, 0, 100, 0, 60, 4, 70, 4, 70, 0, 80, 0>>,
      <<100, 0, 70, 0, 100, 0, 60, 4, 70, 0, 100, 0, 50, -2>>, <<100, 0, 70, 0, 100, 0, 60, 4, 70, 0, 70, 0, 80, 0>>, <<100, 0, 70, 0, 100, 0, 60, 4, 50, -2, 100, 0, 80, 0>>,
      <<100, 0, 70, 0, 100, 0, 50, -2, 100, 0, 100, 0, 20, 0>>, <<100, 0, 70, 0, 100, 0, 50, -2, 100, 0, 70, 0, 50, -2>>, <<100, 0, 70, 0, 100, 0, 50, -2, 80, 0, 100, 0, 50, -2>>,
      <<100, 0, 70, 0, 100, 0, 50, -2, 80, 0, 70, 0, 80, 0>>, <<100, 0, 70, 0, 100, 0, 50, -2, 60, 0, 100, 0, 80, 0>>, <<100, 0, 70, 0, 100, 0, 40, -2, 70, 4, 100, 0, 80, 0>>,
      <<100, 0, 70, 0, 100, 0, 40, -2, 70, 0, 100, 0, 80, 0>>, <<100, 0, 70, 0, 100, 0, 30, -2, 100, 0, 100, 0, 50, -2>>, <<100, 0, 70, 0, 100, 0, 30, -2, 100, 0, 70, 0, 80, 0>>,
      <<100, 0, 70, 0, 100, 0, 30, -2, 80, 0, 100, 0, 80, 0>>, <<100, 0, 70, 0, 80, 0, 100, 0, 70, 4, 100, 0, 20, 0>>, <<100, 0, 70, 0, 80, 0, 100, 0, 70, 4, 70, 0, 50, -2>>,
      <<100, 0, 70, 0, 80, 0, 100, 0, 70, 0, 100, 0, 20, 0>>, <<100, 0, 70, 0, 80, 0, 100, 0, 70, 0, 70, 0, 50, -2>>, <<100, 0, 70, 0, 80, 0, 100, 0, 50, -2, 100, 0, 50, -2>>,
      <<100, 0, 70, 0, 80, 0, 100, 0, 50, -2, 70, 0, 80, 0>>, <<100, 0, 70, 0, 80, 0, 80, 0, 70, 4, 100, 0, 50, -2>>, <<100, 0, 70, 0, 80, 0, 80, 0, 70, 4, 70, 0, 80, 0>>,
      <<100, 0, 70, 0, 80, 0, 80, 0, 70, 0, 100, 0, 50, -2>>, <<100, 0, 70, 0, 80, 0, 80, 0, 70, 0, 70, 0, 80, 0>>, <<100, 0, 70, 0, 80, 0, 80, 0, 50, -2, 100, 0, 80, 0>>,
      <<90, 0, 100, 0, 100, 0, 100, 0, 40, -2, 40, -2, 70, 0>>, <<90, 0, 100, 0, 100, 0, 100, 0, 40, -4, 40, -2, 70, 0>>, <<90, 0, 100, 0, 100, 0, 100, 0, 20, -2, 70, 0, 70, 0>>,
      <<90, 0, 100, 0, 100, 0, 80, 0, 60, 0, 40, -2, 70, 0>>, <<90, 0, 100, 0, 100, 0, 80, 0, 40, -2, 70, 0, 70, 0>>, <<90, 0, 100, 0, 100, 0, 80, 0, 40, -2, 40, -2, 100, 0>>,
      <<90, 0, 100, 0, 100, 0, 80, 0, 40, -4, 70, 0, 70, 0>>, <<90, 0, 100, 0, 100, 0, 80, 0, 40, -4, 40, -2, 100, 0>>, <<90, 0, 100, 0, 100, 0, 80, 0, 20, -2, 100, 0, 70, 0>>,
      <<90, 0, 100, 0, 100, 0, 80, 0, 20, -2, 70, 0, 100, 0>>, <<90, 0, 100, 0, 100, 0, 70, 0, 70, 4, 40, -2, 70, 0>>, <<90, 0, 100, 0, 100, 0, 70, 0, 70, 0, 40, -2, 70, 0>>,
      <<90, 0, 100, 0, 100, 0, 70, 0, 50, -2, 70, 0, 70, 0>>, <<90, 0, 100, 0, 100, 0, 70, 0, 50, -2, 40, -2, 100, 0>>, <<90, 0, 100, 0, 100, 0, 70, 0, 30, -2, 100, 0, 70, 0>>,
      <<90, 0, 100, 0, 100, 0, 70, 0, 30, -2, 70, 0, 100, 0>>, <<90, 0, 100, 0, 100, 0, 70, 0, 10, -2, 100, 0, 100, 0>>, <<90, 0, 100, 0, 100, 0, 60, 4, 80, 0, 40, -2, 70, 0>>,
      <<90, 0, 100, 0, 100, 0, 60, 4, 60, 0, 70, 0, 70, 0>>, <<90, 0, 100, 0, 100, 0, 60, 4, 60, 0, 40, -2, 100, 0>>, <<90, 0, 100, 0, 100, 0, 60, 4, 40, -2, 100, 0, 70, 0>>,
      <<90, 0, 100, 0, 100, 0, 60, 4, 40, -2, 70, 0, 100, 0>>, <<90, 0, 100, 0, 100, 0, 60, 4, 40, -4, 100, 0, 70, 0>>, <<90, 0, 100, 0, 100, 0, 60, 4, 40, -4, 70, 0, 100, 0>>,
      <<90, 0, 100, 0, 100, 0, 60, 4, 20, -2, 100, 0, 100, 0>>, <<90, 0, 100, 0, 100, 0, 50, -2, 70, 4, 70, 0, 70, 0>>, <<90, 0, 100, 0, 100, 0, 50, -2, 70, 4, 40, -2, 100, 0>>,
      <<90, 0, 100, 0, 100, 0, 50, -2, 70, 0, 70, 0, 70, 0>>, <<90, 0, 100, 0, 100, 0, 50, -2, 70, 0, 40, -2, 100, 0>>, <<90, 0, 100, 0, 100, 0, 50, -2, 50, -2, 100, 0, 70, 0>>,
      <<90, 0, 100, 0, 100, 0, 50, -2, 50, -2, 70, 0, 100, 0>>, <<90, 0, 100, 0, 100, 0, 50, -2, 30, -2, 100, 0, 100, 0>>, <<90, 0, 100, 0, 100, 0, 40, -2, 100, 0, 40, -2, 70, 0>>,
      <<90, 0, 100, 0, 100, 0, 40, -2, 80, 0, 70, 0, 70, 0>>, <<90, 0, 100, 0, 100, 0, 40, -2, 80, 0, 40, -2, 100, 0>>, <<90, 0, 100, 0, 100, 0, 40, -2, 60, 0, 100, 0, 70, 0>>,
      <<90, 0, 100, 0, 100, 0, 40, -2, 60, 0, 70, 0, 100, 0>>, <<90, 0, 100, 0, 100, 0, 40, -2, 40, -2, 100, 0, 100, 0>>, <<90, 0, 100, 0, 100, 0, 40, -2, 40, -4, 100, 0, 100, 0>>,
      <<90, 0, 100, 0, 100, 0, 30, -2, 70, 4, 100, 0, 70, 0>>, <<90, 0, 100, 0, 100, 0, 30, -2, 70, 4, 70, 0, 100, 0>>, <<90, 0, 100, 0, 100, 0, 30, -2, 70, 0, 100, 0, 70, 0>>,
      <<90, 0, 100, 0, 100, 0, 30, -2, 70, 0, 70, 0, 100, 0>>, <<90, 0, 100, 0, 100, 0, 30, -2, 50, -2, 100, 0, 100, 0>>, <<90, 0, 100, 0, 100, 0, 20, -2, 100, 0, 70, 0, 70, 0>>,
      <<90, 0, 100, 0, 100, 0, 20, -2, 80, 0, 100, 0, 70, 0>>, <<90, 0, 100, 0, 100, 0, 20, -2, 80, 0, 70, 0, 100, 0>>, <<90, 0, 100, 0, 100, 0, 20, -2, 60, 0, 100, 0, 100, 0>>,
      <<90, 0, 100, 0, 100, 0, 0, 0, 100, 0, 100, 0, 70, 0>>, <<90, 0, 100, 0, 100, 0, 0, 0, 100, 0, 70, 0, 100, 0>>, <<90, 0, 100, 0, 100, 0, 0, 0, 80, 0, 100, 0, 100, 0>>,
      <<90, 0, 100, 0, 80, 0, 100, 0, 60, 0, 40, -2, 70, 0>>, <<90, 0, 100, 0, 80, 0, 100, 0, 40, -2, 70, 0, 70, 0>>, <<90, 0, 100, 0, 80, 0, 100, 0, 40, -2, 40, -2, 100, 0>>,
      <<90, 0, 100, 0, 80, 0, 100, 0, 40, -4, 70, 0, 70, 0>>, <<90, 0, 100, 0, 80, 0, 100, 0, 40, -4, 40, -2, 100, 0>>, <<90, 0, 100, 0, 80, 0, 100, 0, 20, -2, 100, 0, 70, 0>>,
      <<90, 0, 100, 0, 80, 0, 100, 0, 20, -2, 70, 0, 100, 0>>, <<90, 0, 100, 0, 80, 0, 80, 0, 60, 0, 70, 0, 70, 0>>, <<90, 0, 100, 0, 80, 0, 80, 0, 40, -2, 100, 0, 70, 0>>,
      <<90, 0, 100, 0, 80, 0, 80, 0, 40, -2, 70, 0, 100, 0>>, <<90, 0, 100, 0, 80, 0, 80, 0, 40, -4, 100, 0, 70, 0>>, <<90, 0, 100, 0, 80, 0, 80, 0, 40, -4, 70, 0, 100, 0>>,
      <<90, 0, 100, 0, 80, 0, 70, 0, 70, 4, 70, 0, 70, 0>>, <<90, 0, 100, 0, 80, 0, 70, 0, 70, 0, 70, 0, 70, 0>>, <<90, 0, 100, 0, 80, 0, 70, 0, 50, -2, 100, 0, 70, 0>>,
      <<90, 0, 100, 0, 80, 0, 70, 0, 50, -2, 70, 0, 100, 0>>, <<90, 0, 100, 0, 80, 0, 60, 4, 80, 0, 70, 0, 70, 0>>, <<90, 0, 100, 0, 80, 0, 60, 4, 60, 0, 100, 0, 70, 0>>,
      <<90, 0, 100, 0, 80, 0, 60, 4, 60, 0, 70, 0, 100, 0>>, <<90, 0, 100, 0, 80, 0, 60, 4, 40, -2, 100, 0, 100, 0>>, <<90, 0, 100, 0, 80, 0, 60, 4, 40, -4, 100, 0, 100, 0>>,
      <<90, 0, 100, 0, 80, 0, 50, -2, 70, 4, 100, 0, 70, 0>>, <<90, 0, 100, 0, 80, 0, 50, -2, 70, 4, 70, 0, 100, 0>>, <<90, 0, 100, 0, 80, 0, 50, -2, 70, 0, 100, 0, 70, 0>>,
      <<90, 0, 100, 0, 80, 0, 50, -2, 70, 0, 70, 0, 100, 0>>, <<90, 0, 100, 0, 80, 0, 50, -2, 50, -2, 100, 0, 100, 0>>, <<90, 0, 100, 0, 80, 0, 40, -2, 100, 0, 70, 0, 70, 0>>,
      <<90, 0, 100, 0, 80, 0, 40, -2, 80, 0, 100, 0, 70, 0>>, <<90, 0, 100, 0, 80, 0, 40, -2, 80, 0, 70, 0, 100, 0>>, <<90, 0, 100, 0, 80, 0, 40, -2, 60, 0, 100, 0, 100, 0>>,
      <<90, 0, 100, 0, 80, 0, 30, -2, 70, 4, 100, 0, 100, 0>>, <<90, 0, 100, 0, 80, 0, 30, -2, 70, 0, 100, 0, 100, 0>>, <<90, 0, 100, 0, 80, 0, 20, -2, 100, 0, 100, 0, 70, 0>>,
      <<90, 0, 100, 0, 80, 0, 20, -2, 100, 0, 70, 0, 100, 0>>, <<90, 0, 100, 0, 80, 0, 20, -2, 80, 0, 100, 0, 100, 0>>, <<90, 0, 100, 0, 80, 0, 0, 0, 100, 0, 100, 0, 100, 0>>,
      <<90, 0, 100, 0, 60, 4, 100, 0, 60, 0, 70, 0, 70, 0>>, <<90, 0, 100, 0, 60, 4, 100, 0, 40, -2, 100, 0, 70, 0>>, <<90, 0, 100, 0, 60, 4, 100, 0, 40, -2, 70, 0, 100, 0>>,
      <<90, 0, 100, 0, 60, 4, 100, 0, 40, -4, 100, 0, 70, 0>>, <<90, 0, 100, 0, 60, 4, 100, 0, 40, -4, 70, 0, 100, 0>>, <<90, 0, 100, 0, 60, 4, 80, 0, 80, 0, 70, 0, 70, 0>>,
      <<90, 0, 100, 0, 60, 4, 80, 0, 60, 0, 100, 0, 70, 0>>, <<90, 0, 100, 0, 60, 4, 80, 0, 60, 0, 70, 0, 100, 0>>, <<90, 0, 100, 0, 60, 4, 80, 0, 40, -2, 100, 0, 100, 0>>,
      <<90, 0, 100, 0, 60, 4, 80, 0, 40, -4, 100, 0, 100, 0>>, <<90, 0, 100, 0, 60, 4, 70, 0, 70, 4, 100, 0, 70, 0>>, <<90, 0, 100, 0, 60, 4, 70, 0, 70, 4, 70, 0, 100, 0>>,
      <<90, 0, 100, 0, 60, 4, 70, 0, 70, 0, 100, 0, 70, 0>>, <<90, 0, 100, 0, 60, 4, 70, 0, 70, 0, 70, 0, 100, 0>>, <<90, 0, 100, 0, 60, 4, 70, 0, 50, -2, 100, 0, 100, 0>>,
      <<90, 0, 100, 0, 60, 4, 60, 4, 100, 0, 70, 0, 70, 0>>, <<90, 0, 100, 0, 60, 4, 60, 4, 80, 0, 100, 0, 70, 0>>, <<90, 0, 100, 0, 60, 4, 60, 4, 80, 0, 70, 0, 100, 0>>,
      <<90, 0, 100, 0, 60, 4, 60, 4, 60, 0, 100, 0, 100, 0>>, <<90, 0, 100, 0, 60, 4, 50, -2, 70, 4, 100, 0, 100, 0>>, <<90, 0, 100, 0, 60, 4, 50, -2, 70, 0, 100, 0, 100, 0>>,
      <<90, 0, 100, 0, 60, 4, 40, -2, 100, 0, 100, 0, 70, 0>>, <<90, 0, 100, 0, 60, 4, 40, -2, 100, 0, 70, 0, 100, 0>>, <<90, 0, 100, 0, 60, 4, 20, -2, 100, 0, 100, 0, 100, 0>>,
      <<90, 0, 100, 0, 60, 0, 100, 0, 60, 0, 70, 0, 70, 0>>, <<90, 0, 100, 0, 60, 0, 100, 0, 40, -2, 100, 0, 70, 0>>, <<90, 0, 100, 0, 60, 0, 100, 0, 40, -2, 70, 0, 100, 0>>,
      <<90, 0, 100, 0, 60, 0, 100, 0, 40, -4, 100, 0, 70, 0>>, <<90, 0, 100, 0, 60, 0, 100, 0, 40, -4, 70, 0, 100, 0>>, <<90, 0, 100, 0, 60, 0, 80, 0, 80, 0, 70, 0, 70, 0>>,
      <<90, 0, 100, 0, 60, 0, 80, 0, 60, 0, 100, 0, 70, 0>>, <<90, 0, 100, 0, 60, 0, 80, 0, 60, 0, 70, 0, 100, 0>>, <<90, 0, 100, 0, 60, 0, 80, 0, 40, -2, 100, 0, 100, 0>>,
      <<90, 0, 100, 0, 60, 0, 80, 0, 40, -4, 100, 0, 100, 0>>, <<90, 0, 100, 0, 60, 0, 70, 0, 70, 4, 100, 0, 70, 0>>, <<90, 0, 100, 0, 60, 0, 70, 0, 70, 4, 70, 0, 100, 0>>,
      <<90, 0, 100, 0, 60, 0, 70, 0, 70, 0, 100, 0, 70, 0>>, <<90, 0, 100, 0, 60, 0, 70, 0, 70, 0, 70, 0, 100, 0>>, <<90, 0, 100, 0, 60, 0, 70, 0, 50, -2, 100, 0, 100, 0>>,
      <<90, 0, 100, 0, 60, 0, 60, 4, 100, 0, 70, 0, 70, 0>>, <<90, 0, 100, 0, 60, 0, 60, 4, 80, 0, 100, 0, 70, 0>>, <<90, 0, 100, 0, 60, 0, 60, 4, 80, 0, 70, 0, 100, 0>>,
      <<90, 0, 100, 0, 60, 0, 60, 4, 60, 0, 100, 0, 100, 0>>, <<90, 0, 100, 0, 60, 0, 50, -2, 70, 4, 100, 0, 100, 0>>, <<90, 0, 100, 0, 60, 0, 50, -2, 70, 0, 100, 0, 100, 0>>,
      <<90, 0, 100, 0, 60, 0, 40, -2, 100, 0, 100, 0, 70, 0>>, <<90, 0, 100, 0, 60, 0, 40, -2, 100, 0, 70, 0, 100, 0>>, <<90, 0, 100, 0, 60, 0, 20, -2, 100, 0, 100, 0, 100, 0>>,
      <<90, 0, 100, 0, 40, 2, 100, 0, 80, 0, 70, 0, 70, 0>>, <<90, 0, 100, 0, 40, 2, 100, 0, 60, 0, 100, 0, 70, 0>>, <<90, 0, 100, 0, 40, 2, 100, 0, 60, 0, 70, 0, 100, 0>>,
      <<90, 0, 100, 0, 40, 2, 100, 0, 40, -2, 100, 0, 100, 0>>, <<90, 0, 100, 0, 40, 2, 100, 0, 40, -4, 100, 0, 100, 0>>, <<90, 0, 100, 0, 40, 2, 80, 0, 100, 0, 70, 0, 70, 0>>,
      <<90, 0, 100, 0, 40, 2, 80, 0, 80, 0, 100, 0, 70, 0>>, <<90, 0, 100, 0, 40, 2, 80, 0, 80, 0, 70, 0, 100, 0>>, <<90, 0, 100, 0, 40, 2, 80, 0, 60, 0, 100, 0, 100, 0>>,
      <<90, 0, 100, 0, 40, 2, 70, 0, 70, 4, 100, 0, 100, 0>>, <<90, 0, 100, 0, 40, 2, 70, 0, 70, 0, 100, 0, 100, 0>>, <<90, 0, 100, 0, 40, 2, 60, 4, 100, 0, 100, 0, 70, 0>>,
      <<90, 0, 100, 0, 40, 2, 60, 4, 100, 0, 70, 0, 100, 0>>, <<90, 0, 100, 0, 40, 2, 40, -2, 100, 0, 100, 0, 100, 0>>, <<90, 0, 100, 0, 40, -2, 100, 0, 80, 0, 70, 0, 70, 0>>,
      <<90, 0, 100, 0, 40, -2, 100, 0, 60, 0, 100, 0, 70, 0>>, <<90, 0, 100, 0, 40, -2, 100, 0, 60, 0, 70, 0, 100, 0>>, <<90, 0, 100, 0, 40, -2, 100, 0, 40, -2, 100, 0, 100, 0>>,
      <<90, 0, 100, 0, 40, -2, 100, 0, 40, -4, 100, 0, 100, 0>>, <<90, 0, 100, 0, 40, -2, 80, 0, 100, 0, 70, 0, 70, 0>>, <<90, 0, 100, 0, 40, -2, 80, 0, 80, 0, 100, 0, 70, 0>>,
      <<90, 0, 100, 0, 40, -2, 80, 0, 80, 0, 70, 0, 100, 0>>, <<90, 0, 100, 0, 40, -2, 80, 0, 60, 0, 100, 0, 100, 0>>, <<90, 0, 100, 0, 40, -2, 70, 0, 70, 4, 100, 0, 100, 0>>,
      <<90, 0, 100, 0, 40, -2, 70, 0, 70, 0, 100, 0, 100, 0>>, <<90, 0, 100, 0, 40, -2, 60, 4, 100, 0, 100, 0, 70, 0>>, <<90, 0, 100, 0, 40, -2, 60, 4, 100, 0, 70, 0, 100, 0>>,
      <<90, 0, 100, 0, 40, -2, 40, -2, 100, 0, 100, 0, 100, 0>>, <<90, 0, 100, 0, 20, -2, 100, 0, 100, 0, 70, 0, 70, 0>>, <<90, 0, 100, 0, 20, -2, 100, 0, 80, 0, 100, 0, 70, 0>>,
      <<90, 0, 100, 0, 20, -2, 100, 0, 80, 0, 70, 0, 100, 0>>, <<90, 0, 100, 0, 20, -2, 100, 0, 60, 0, 100, 0, 100, 0>>, <<90, 0, 100, 0, 20, -2, 80, 0, 100, 0, 100, 0, 70, 0>>,
      <<90, 0, 100, 0, 20, -2, 80, 0, 100, 0, 70, 0, 100, 0>>, <<90, 0, 100, 0, 20, -2, 80, 0, 80, 0, 100, 0, 100, 0>>, <<90, 0, 100, 0, 20, -2, 60, 4, 100, 0, 100, 0, 100, 0>>,
      <<90, 0, 100, 0, 0, 0, 100, 0, 100, 0, 100, 0, 70, 0>>, <<90, 0, 100, 0, 0, 0, 100, 0, 100, 0, 70, 0, 100, 0>>, <<90, 0, 100, 0, 0, 0, 100, 0, 80, 0, 100, 0, 100, 0>>,
      <<90, 0, 100, 0, 0, 0, 80, 0, 100, 0, 100, 0, 100, 0>>, <<90, 0, 80, 0, 100, 0, 100, 0, 40, -2, 70, 0, 70, 0>>, <<90, 0, 80, 0, 100, 0, 100, 0, 40, -4, 70, 0, 70, 0>>,
      <<90, 0, 80, 0, 100, 0, 80, 0, 60, 0, 70, 0, 70, 0>>, <<90, 0, 80, 0, 100, 0, 80, 0, 40, -2, 100, 0, 70, 0>>, <<90, 0, 80, 0, 100, 0, 80, 0, 40, -2, 70, 0, 100, 0>>,
      <<90, 0, 80, 0, 100, 0, 80, 0, 40, -4, 100, 0, 70, 0>>, <<90, 0, 80, 0, 100, 0, 80, 0, 40, -4, 70, 0, 100, 0>>, <<90, 0, 80, 0, 100, 0, 70, 0, 70, 4, 70, 0, 70, 0>>,
      <<90, 0, 80, 0, 100, 0, 70, 0, 70, 0, 70, 0, 70, 0>>, <<90, 0, 80, 0, 100, 0, 70, 0, 50, -2, 100, 0, 70, 0>>, <<90, 0, 80, 0, 100, 0, 70, 0, 50, -2, 70, 0, 100, 0>>,
      <<90, 0, 80, 0, 100, 0, 60, 4, 80, 0, 70, 0, 70, 0>>, <<90, 0, 80, 0, 100, 0, 60, 4, 60, 0, 100, 0, 70, 0>>, <<90, 0, 80, 0, 100, 0, 60, 4, 60, 0, 70, 0, 100, 0>>,
      <<90, 0, 80, 0, 100, 0, 60, 4, 40, -2, 100, 0, 100, 0>>, <<90, 0, 80, 0, 100, 0, 60, 4, 40, -4, 100, 0, 100, 0>>, <<90, 0, 80, 0, 100, 0, 50, -2, 70, 4, 100, 0, 70, 0>>,
      <<90, 0, 80, 0, 100, 0, 50, -2, 70, 4, 70, 0, 100, 0>>, <<90, 0, 80, 0, 100, 0, 50, -2, 70, 0, 100, 0, 70, 0>>, <<90, 0, 80, 0, 100, 0, 50, -2, 70, 0, 70, 0, 100, 0>>,
      <<90, 0, 80, 0, 100, 0, 50, -2, 50, -2, 100, 0, 100, 0>>, <<90, 0, 80, 0, 100, 0, 40, -2, 100, 0, 70, 0, 70, 0>>, <<90, 0, 80, 0, 100, 0, 40, -2, 80, 0, 100, 0, 70, 0>>,
      <<90, 0, 80, 0, 100, 0, 40, -2, 80, 0, 70, 0, 100, 0>>, <<90, 0, 80, 0, 100, 0, 40, -2, 60, 0, 100, 0, 100, 0>>, <<90, 0, 80, 0, 100, 0, 20, -2, 100, 0, 100, 0, 70, 0>>,
      <<90, 0, 80, 0, 100, 0, 20, -2, 100, 0, 70, 0, 100, 0>>, <<90, 0, 80, 0, 80, 0, 100, 0, 60, 0, 70, 0, 70, 0>>, <<90, 0, 80, 0, 80, 0, 100, 0, 40, -2, 100, 0, 70, 0>>,
      <<90, 0, 80, 0, 80, 0, 100, 0, 40, -2, 70, 0, 100, 0>>, <<90, 0, 80, 0, 80, 0, 100, 0, 40, -4, 100, 0, 70, 0>>, <<90, 0, 80, 0, 80, 0, 100, 0, 40, -4, 70, 0, 100, 0>>,
      <<90, 0, 80, 0, 80, 0, 80, 0, 80, 0, 70, 0, 70, 0>>, <<90, 0, 80, 0, 80, 0, 80, 0, 60, 0, 100, 0, 70, 0>>, <<90, 0, 80, 0, 80, 0, 80, 0, 60, 0, 70, 0, 100, 0>>,
      <<90, 0, 80, 0, 80, 0, 80, 0, 40, -2, 100, 0, 100, 0>>, <<90, 0, 80, 0, 80, 0, 80, 0, 40, -4, 100, 0, 100, 0>>, <<90, 0, 80, 0, 80, 0, 70, 0, 70, 4, 100, 0, 70, 0>>,
      <<90, 0, 80, 0, 80, 0, 70, 0, 70, 4, 70, 0, 100, 0>>, <<90, 0, 80, 0, 80, 0, 70, 0, 70, 0, 100, 0, 70, 0>>, <<90, 0, 80, 0, 80, 0, 70, 0, 70, 0, 70, 0, 100, 0>>,
      <<90, 0, 80, 0, 80, 0, 70, 0, 50, -2, 100, 0, 100, 0>>, <<90, 0, 80, 0, 80, 0, 60, 4, 100, 0, 70, 0, 70, 0>>, <<90, 0, 80, 0, 80, 0, 60, 4, 80, 0, 100, 0, 70, 0>>,
      <<90, 0, 80, 0, 80, 0, 60, 4, 80, 0, 70, 0, 100, 0>>, <<90, 0, 80, 0, 80, 0, 60, 4, 60, 0, 100, 0, 100, 0>>, <<90, 0, 80, 0, 80, 0, 50, -2, 70, 4, 100, 0, 100, 0>>,
      <<90, 0, 80, 0, 80, 0, 50, -2, 70, 0, 100, 0, 100, 0>>, <<90, 0, 80, 0, 80, 0, 40, -2, 100, 0, 100, 0, 70, 0>>, <<90, 0, 80, 0, 80, 0, 40, -2, 100, 0, 70, 0, 100, 0>>,
      <<90, 0, 80, 0, 80, 0, 20, -2, 100, 0, 100, 0, 100, 0>>, <<90, 0, 80, 0, 60, 4, 100, 0, 80, 0, 70, 0, 70, 0>>, <<90, 0, 80, 0, 60, 4, 100, 0, 60, 0, 100, 0, 70, 0>>,
      <<90, 0, 80, 0, 60, 4, 100, 0, 60, 0, 70, 0, 100, 0>>, <<90, 0, 80, 0, 60, 4, 100, 0, 40, -2, 100, 0, 100, 0>>, <<90, 0, 80, 0, 60, 4, 100, 0, 40, -4, 100, 0, 100, 0>>,
      <<90, 0, 80, 0, 60, 4, 80, 0, 100, 0, 70, 0, 70, 0>>, <<90, 0, 80, 0, 60, 4, 80, 0, 80, 0, 100, 0, 70, 0>>, <<90, 0, 80, 0, 60, 4, 80, 0, 80, 0, 70, 0, 100, 0>>,
      <<90, 0, 80, 0, 60, 4, 80, 0, 60, 0, 100, 0, 100, 0>>, <<90, 0, 80, 0, 60, 0, 100, 0, 80, 0, 70, 0, 70, 0>>, <<90, 0, 80, 0, 60, 0, 100, 0, 60, 0, 100, 0, 70, 0>>,
      <<90, 0, 80, 0, 60, 0, 100, 0, 60, 0, 70, 0, 100, 0>>, <<90, 0, 80, 0, 60, 0, 100, 0, 40, -2, 100, 0, 100, 0>>, <<90, 0, 80, 0, 60, 0, 100, 0, 40, -4, 100, 0, 100, 0>>,
      <<90, 0, 80, 0, 60, 0, 80, 0, 100, 0, 70, 0, 70, 0>>, <<90, 0, 80, 0, 60, 0, 80, 0, 80, 0, 100, 0, 70, 0>>, <<90, 0, 80, 0, 60, 0, 80, 0, 80, 0, 70, 0, 100, 0>>,
      <<90, 0, 80, 0, 60, 0, 80, 0, 60, 0, 100, 0, 100, 0>>, <<90, 0, 80, 0, 60, 0, 70, 0, 70, 4, 100, 0, 100, 0>>, <<90, 0, 80, 0, 60, 0, 70, 0, 70, 0, 100, 0, 100, 0>>,
      <<90, 0, 80, 0, 60, 0, 60, 4, 100, 0, 100, 0, 70, 0>>, <<90, 0, 80, 0, 60, 0, 60, 4, 100, 0, 70, 0, 100, 0>>, <<90, 0, 80, 0, 60, 0, 40, -2, 100, 0, 100, 0, 100, 0>>,
      <<90, 0, 80, 0, 40, 2, 100, 0, 100, 0, 70, 0, 70, 0>>, <<90, 0, 80, 0, 40, 2, 100, 0, 80, 0, 100, 0, 70, 0>>, <<90, 0, 80, 0, 40, 2, 100, 0, 80, 0, 70, 0, 100, 0>>,
      <<90, 0, 80, 0, 40, 2, 100, 0, 60, 0, 100, 0, 100, 0>>, <<90, 0, 80, 0, 40, 2, 80, 0, 100, 0, 100, 0, 70, 0>>, <<90, 0, 80, 0, 40, 2, 80, 0, 100, 0, 70, 0, 100, 0>>,
      <<90, 0, 80, 0, 40, -2, 100, 0, 100, 0, 70, 0, 70, 0>>, <<90, 0, 80, 0, 40, -2, 100, 0, 80, 0, 100, 0, 70, 0>>, <<90, 0, 80, 0, 40, -2, 100, 0, 80, 0, 70, 0, 100, 0>>,
      <<90, 0, 80, 0, 40, -2, 100, 0, 60, 0, 100, 0, 100, 0>>, <<90, 0, 80, 0, 40, -2, 80, 0, 100, 0, 100, 0, 70, 0>>, <<90, 0, 80, 0, 40, -2, 80, 0, 100, 0, 70, 0, 100, 0>>,
      <<90, 0, 80, 0, 20, -2, 100, 0, 100, 0, 100, 0, 70, 0>>, <<90, 0, 80, 0, 20, -2, 100, 0, 100, 0, 70, 0, 100, 0>>, <<90, 0, 80, 0, 20, -2, 100, 0, 80, 0, 100, 0, 100, 0>>,
      <<90, 0, 80, 0, 20, -2, 80, 0, 100, 0, 100, 0, 100, 0>>, <<90, 0, 70, 4, 100, 0, 100, 0, 50, -2, 70, 0, 70, 0>>, <<90, 0, 70, 4, 100, 0, 80, 0, 70, 4, 70, 0, 70, 0>>,
      <<90, 0, 70, 4, 100, 0, 80, 0, 70, 0, 70, 0, 70, 0>>, <<90, 0, 70, 4, 100, 0, 80, 0, 50, -2, 100, 0, 70, 0>>, <<90, 0, 70, 4, 100, 0, 80, 0, 50, -2, 70, 0, 100, 0>>,
      <<90, 0, 70, 4, 100, 0, 70, 0, 80, 0, 70, 0, 70, 0>>, <<90, 0, 70, 4, 100, 0, 70, 0, 60, 0, 100, 0, 70, 0>>, <<90, 0, 70, 4, 100, 0, 70, 0, 60, 0, 70, 0, 100, 0>>,
      <<90, 0, 70, 4, 100, 0, 70, 0, 40, -2, 100, 0, 100, 0>>, <<90, 0, 70, 4, 100, 0, 70, 0, 40, -4, 100, 0, 100, 0>>, <<90, 0, 70, 4, 100, 0, 60, 4, 70, 4, 100, 0, 70, 0>>,
      <<90, 0, 70, 4, 100, 0, 60, 4, 70, 4, 70, 0, 100, 0>>, <<90, 0, 70, 4, 100, 0, 60, 4, 70, 0, 100, 0, 70, 0>>, <<90, 0, 70, 4, 100, 0, 60, 4, 70, 0, 70, 0, 100, 0>>,
      <<90, 0, 70, 4, 100, 0, 60, 4, 50, -2, 100, 0, 100, 0>>, <<90, 0, 70, 4, 100, 0, 50, -2, 100, 0, 70, 0, 70, 0>>, <<90, 0, 70, 4, 100, 0, 50, -2, 80, 0, 100, 0, 70, 0>>,
      <<90, 0, 70, 4, 100, 0, 50, -2, 80, 0, 70, 0, 100, 0>>, <<90, 0, 70, 4, 100, 0, 50, -2, 60, 0, 100, 0, 100, 0>>, <<90, 0, 70, 4, 100, 0, 30, -2, 100, 0, 100, 0, 70, 0>>,
      <<90, 0, 70, 4, 100, 0, 30, -2, 100, 0, 70, 0, 100, 0>>, <<90, 0, 70, 4, 80, 0, 100, 0, 70, 4, 70, 0, 70, 0>>, <<90, 0, 70, 4, 80, 0, 100, 0, 70, 0, 70, 0, 70, 0>>,
      <<90, 0, 70, 4, 80, 0, 100, 0, 50, -2, 100, 0, 70, 0>>, <<90, 0, 70, 4, 80, 0, 100, 0, 50, -2, 70, 0, 100, 0>>, <<90, 0, 70, 4, 80, 0, 80, 0, 70, 4, 100, 0, 70, 0>>,
      <<90, 0, 70, 4, 80, 0, 80, 0, 70, 4, 70, 0, 100, 0>>, <<90, 0, 70, 4, 80, 0, 80, 0, 70, 0, 100, 0, 70, 0>>, <<90, 0, 70, 4, 80, 0, 80, 0, 70, 0, 70, 0, 100, 0>>,
      <<90, 0, 70, 4, 80, 0, 80, 0, 50, -2, 100, 0, 100, 0>>, <<90, 0, 70, 4, 80, 0, 70, 0, 100, 0, 70, 0, 70, 0>>, <<90, 0, 70, 4, 80, 0, 70, 0, 80, 0, 100, 0, 70, 0>>,
      <<90, 0, 70, 4, 80, 0, 70, 0, 80, 0, 70, 0, 100, 0>>, <<90, 0, 70, 4, 80, 0, 70, 0, 60, 0, 100, 0, 100, 0>>, <<90, 0, 70, 4, 80, 0, 50, -2, 100, 0, 100, 0, 70, 0>>,
      <<90, 0, 70, 4, 80, 0, 50, -2, 100, 0, 70, 0, 100, 0>>, <<90, 0, 70, 4, 80, 0, 50, -2, 80, 0, 100, 0, 100, 0>>, <<90, 0, 70, 4, 80, 0, 30, -2, 100, 0, 100, 0, 100, 0>>,
      <<90, 0, 70, 4, 60, 4, 100, 0, 70, 4, 100, 0, 70, 0>>, <<90, 0, 70, 4, 60, 4, 100, 0, 70, 4, 70, 0, 100, 0>>, <<90, 0, 70, 4, 60, 4, 100, 0, 70, 0, 100, 0, 70, 0>>,
      <<90, 0, 70, 4, 60, 4, 100, 0, 70, 0, 70, 0, 100, 0>>, <<90, 0, 70, 4, 60, 4, 100, 0, 50, -2, 100, 0, 100, 0>>, <<90, 0, 70, 4, 60, 4, 70, 0, 100, 0, 100, 0, 70, 0>>,
      <<90, 0, 70, 4, 60, 4, 70, 0, 100, 0, 70, 0, 100, 0>>, <<90, 0, 70, 4, 60, 0, 100, 0, 70, 4, 100, 0, 70, 0>>, <<90, 0, 70, 4, 60, 0, 100, 0, 70, 4, 70, 0, 100, 0>>,
      <<90, 0, 70, 4, 60, 0, 100, 0, 70, 0, 100, 0, 70, 0>>, <<90, 0, 70, 4, 60, 0, 100, 0, 70, 0, 70, 0, 100, 0>>, <<90, 0, 70, 4, 60, 0, 100, 0, 50, -2, 100, 0, 100, 0>>,
      <<90, 0, 70, 4, 60, 0, 80, 0, 70, 4, 100, 0, 100, 0>>, <<90, 0, 70, 4, 60, 0, 80, 0, 70, 0, 100, 0, 100, 0>>, <<90, 0, 70, 4, 60, 0, 70, 0, 100, 0, 100, 0, 70, 0>>,
      <<90, 0, 70, 4, 60, 0, 70, 0, 100, 0, 70, 0, 100, 0>>, <<90, 0, 70, 4, 60, 0, 70, 0, 80, 0, 100, 0, 100, 0>>, <<90, 0, 70, 4, 60, 0, 50, -2, 100, 0, 100, 0, 100, 0>>,
      <<90, 0, 70, 4, 40, 2, 100, 0, 70, 4, 100, 0, 100, 0>>, <<90, 0, 70, 4, 40, 2, 100, 0, 70, 0, 100, 0, 100, 0>>, <<90, 0, 70, 4, 40, 2, 70, 0, 100, 0, 100, 0, 100, 0>>,
      <<90, 0, 70, 4, 40, -2, 100, 0, 70, 4, 100, 0, 100, 0>>, <<90, 0, 70, 4, 40, -2, 100, 0, 70, 0, 100, 0, 100, 0>>, <<90, 0, 70, 4, 40, -2, 70, 0, 100, 0, 100, 0, 100, 0>>,
      <<90, 0, 70, 0, 100, 0, 100, 0, 50, -2, 70, 0, 70, 0>>, <<90, 0, 70, 0, 100, 0, 80, 0, 70, 4, 70, 0, 70, 0>>, <<90, 0, 70, 0, 100, 0, 80, 0, 70, 0, 70, 0, 70, 0>>,
      <<90, 0, 70, 0, 100, 0, 80, 0, 50, -2, 100, 0, 70, 0>>, <<90, 0, 70, 0, 100, 0, 80, 0, 50, -2, 70, 0, 100, 0>>, <<90, 0, 70, 0, 100, 0, 70, 0, 80, 0, 70, 0, 70, 0>>,
      <<90, 0, 70, 0, 100, 0, 70, 0, 60, 0, 100, 0, 70, 0>>, <<90, 0, 70, 0, 100, 0, 70, 0, 60, 0, 70, 0, 100, 0>>, <<90, 0, 70, 0, 100, 0, 70, 0, 40, -2, 100, 0, 100, 0>>,
      <<90, 0, 70, 0, 100, 0, 70, 0, 40, -4, 100, 0, 100, 0>>, <<90, 0, 70, 0, 100, 0, 60, 4, 70, 4, 100, 0, 70, 0>>, <<90, 0, 70, 0, 100, 0, 60, 4, 70, 4, 70, 0, 100, 0>>,
      <<90, 0, 70, 0, 100, 0, 60, 4, 70, 0, 100, 0, 70, 0>>, <<90, 0, 70, 0, 100, 0, 60, 4, 70, 0, 70, 0, 100, 0>>, <<90, 0, 70, 0, 100, 0, 60, 4, 50, -2, 100, 0, 100, 0>>,
      <<90, 0, 70, 0, 100, 0, 50, -2, 100, 0, 70, 0, 70, 0>>, <<90, 0, 70, 0, 100, 0, 50, -2, 80, 0, 100, 0, 70, 0>>, <<90, 0, 70, 0, 100, 0, 50, -2, 80, 0, 70, 0, 100, 0>>,
      <<90, 0, 70, 0, 100, 0, 50, -2, 60, 0, 100, 0, 100, 0>>, <<90, 0, 70, 0, 100, 0, 30, -2, 100, 0, 100, 0, 70, 0>>, <<90, 0, 70, 0, 100, 0, 30, -2, 100, 0, 70, 0, 100, 0>>,
      <<90, 0, 70, 0, 80, 0, 100, 0, 70, 4, 70, 0, 70, 0>>, <<90, 0, 70, 0, 80, 0, 100, 0, 70, 0, 70, 0, 70, 0>>, <<90, 0, 70, 0, 80, 0, 100, 0, 50, -2, 100, 0, 70, 0>>,
      <<90, 0, 70, 0, 80, 0, 100, 0, 50, -2, 70, 0, 100, 0>>, <<90, 0, 70, 0, 80, 0, 80, 0, 70, 4, 100, 0, 70, 0>>, <<90, 0, 70, 0, 80, 0, 80, 0, 70, 4, 70, 0, 100, 0>>,
      <<90, 0, 70, 0, 80, 0, 80, 0, 70, 0, 100, 0, 70, 0>>, <<90, 0, 70, 0, 80, 0, 80, 0, 70, 0, 70, 0, 100, 0>>, <<90, 0, 70, 0, 80, 0, 80, 0, 50, -2, 100, 0, 100, 0>>,
      <<90, 0, 70, 0, 80, 0, 70, 0, 100, 0, 70, 0, 70, 0>>, <<90, 0, 70, 0, 80, 0, 70, 0, 80, 0, 100, 0, 70, 0>>, <<90, 0, 70, 0, 80, 0, 70, 0, 80, 0, 70, 0, 100, 0>>,
      <<90, 0, 70, 0, 80, 0, 70, 0, 60, 0, 100, 0, 100, 0>>, <<90, 0, 70, 0, 80, 0, 50, -2, 100, 0, 100, 0, 70, 0>>, <<90, 0, 70, 0, 80, 0, 50, -2, 100, 0, 70, 0, 100, 0>>,
      <<90, 0, 70, 0, 80, 0, 50, -2, 80, 0, 100, 0, 100, 0>>, <<90, 0, 70, 0, 80, 0, 30, -2, 100, 0, 100, 0, 100, 0>>, <<90, 0, 70, 0, 60, 4, 100, 0, 70, 4, 100, 0, 70, 0>>,
      <<90, 0, 70, 0, 60, 4, 100, 0, 70, 4, 70, 0, 100, 0>>, <<90, 0, 70, 0, 60, 4, 100, 0, 70, 0, 100, 0, 70, 0>>, <<90, 0, 70, 0, 60, 4, 100, 0, 70, 0, 70, 0, 100, 0>>,
      <<90, 0, 70, 0, 60, 4, 100, 0, 50, -2, 100, 0, 100, 0>>, <<90, 0, 70, 0, 60, 4, 70, 0, 100, 0, 100, 0, 70, 0>>, <<90, 0, 70, 0, 60, 4, 70, 0, 100, 0, 70, 0, 100, 0>>,
      <<90, 0, 70, 0, 60, 0, 100, 0, 70, 4, 100, 0, 70, 0>>, <<90, 0, 70, 0, 60, 0, 100, 0, 70, 4, 70, 0, 100, 0>>, <<90, 0, 70, 0, 60, 0, 100, 0, 70, 0, 100, 0, 70, 0>>,
      <<90, 0, 70, 0, 60, 0, 100, 0, 70, 0, 70, 0, 100, 0>>, <<90, 0, 70, 0, 60, 0, 100, 0, 50, -2, 100, 0, 100, 0>>, <<90, 0, 70, 0, 60, 0, 80, 0, 70, 4, 100, 0, 100, 0>>,
      <<90, 0, 70, 0, 60, 0, 80, 0, 70, 0, 100, 0, 100, 0>>, <<90, 0, 70, 0, 60, 0, 70, 0, 100, 0, 100, 0, 70, 0>>, <<90, 0, 70, 0, 60, 0, 70, 0, 100, 0, 70, 0, 100, 0>>,
      <<90, 0, 70, 0, 60, 0, 70, 0, 80, 0, 100, 0, 100, 0>>, <<90, 0, 70, 0, 60, 0, 50, -2, 100, 0, 100, 0, 100, 0>>, <<90, 0, 70, 0, 40, 2, 100, 0, 70, 4, 100, 0, 100, 0>>,
      <<90, 0, 70, 0, 40, 2, 100, 0, 70, 0, 100, 0, 100, 0>>, <<90, 0, 70, 0, 40, 2, 70, 0, 100, 0, 100, 0, 100, 0>>, <<90, 0, 70, 0, 40, -2, 100, 0, 70, 4, 100, 0, 100, 0>>,
      <<90, 0, 70, 0, 40, -2, 100, 0, 70, 0, 100, 0, 100, 0>>, <<90, 0, 70, 0, 40, -2, 70, 0, 100, 0, 100, 0, 100, 0>>, <<90, 0, 60, 4, 100, 0, 100, 0, 60, 0, 70, 0, 70, 0>>,
      <<90, 0, 60, 4, 100, 0, 100, 0, 40, -2, 100, 0, 70, 0>>, <<90, 0, 60, 4, 100, 0, 100, 0, 40, -2, 70, 0, 100, 0>>, <<90, 0, 60, 4, 100, 0, 100, 0, 40, -4, 100, 0, 70, 0>>,
      <<90, 0, 60, 4, 100, 0, 100, 0, 40, -4, 70, 0, 100, 0>>, <<90, 0, 60, 4, 100, 0, 80, 0, 80, 0, 70, 0, 70, 0>>, <<90, 0, 60, 4, 100, 0, 80, 0, 60, 0, 100, 0, 70, 0>>,
      <<90, 0, 60, 4, 100, 0, 80, 0, 60, 0, 70, 0, 100, 0>>, <<90, 0, 60, 4, 100, 0, 80, 0, 40, -2, 100, 0, 100, 0>>, <<90, 0, 60, 4, 100, 0, 80, 0, 40, -4, 100, 0, 100, 0>>,
      <<90, 0, 60, 4, 100, 0, 70, 0, 70, 4, 100, 0, 70, 0>>, <<90, 0, 60, 4, 100, 0, 70, 0, 70, 4, 70, 0, 100, 0>>, <<90, 0, 60, 4, 100, 0, 70, 0, 70, 0, 100, 0, 70, 0>>,
      <<90, 0, 60, 4, 100, 0, 70, 0, 70, 0, 70, 0, 100, 0>>, <<90, 0, 60, 4, 100, 0, 70, 0, 50, -2, 100, 0, 100, 0>>, <<90, 0, 60, 4, 100, 0, 60, 4, 100, 0, 70, 0, 70, 0>>,
      <<90, 0, 60, 4, 100, 0, 60, 4, 80, 0, 100, 0, 70, 0>>, <<90, 0, 60, 4, 100, 0, 60, 4, 80, 0, 70, 0, 100, 0>>, <<90, 0, 60, 4, 100, 0, 60, 4, 60, 0, 100, 0, 100, 0>>,
      <<90, 0, 60, 4, 100, 0, 50, -2, 70, 4, 100, 0, 100, 0>>, <<90, 0, 60, 4, 100, 0, 50, -2, 70, 0, 100, 0, 100, 0>>, <<90, 0, 60, 4, 100, 0, 40, -2, 100, 0, 100, 0, 70, 0>>,
      <<90, 0, 60, 4, 100, 0, 40, -2, 100, 0, 70, 0, 100, 0>>, <<90, 0, 60, 4, 100, 0, 20, -2, 100, 0, 100, 0, 100, 0>>, <<90, 0, 60, 4, 80, 0, 100, 0, 80, 0, 70, 0, 70, 0>>,
      <<90, 0, 60, 4, 80, 0, 100, 0, 60, 0, 100, 0, 70, 0>>, <<90, 0, 60, 4, 80, 0, 100, 0, 60, 0, 70, 0, 100, 0>>, <<90, 0, 60, 4, 80, 0, 100, 0, 40, -2, 100, 0, 100, 0>>,
      <<90, 0, 60, 4, 80, 0, 100, 0, 40, -4, 100, 0, 100, 0>>, <<90, 0, 60, 4, 80, 0, 80, 0, 100, 0, 70, 0, 70, 0>>, <<90, 0, 60, 4, 80, 0, 80, 0, 80, 0, 100, 0, 70, 0>>,
      <<90, 0, 60, 4, 80, 0, 80, 0, 80, 0, 70, 0, 100, 0>>, <<90, 0, 60, 4, 80, 0, 80, 0, 60, 0, 100, 0, 100, 0>>, <<90, 0, 60, 4, 80, 0, 70, 0, 70, 4, 100, 0, 100, 0>>,
      <<90, 0, 60, 4, 80, 0, 70, 0, 70, 0, 100, 0, 100, 0>>, <<90, 0, 60, 4, 80, 0, 60, 4, 100, 0, 100, 0, 70, 0>>, <<90, 0, 60, 4, 80, 0, 60, 4, 100, 0, 70, 0, 100, 0>>,
      <<90, 0, 60, 4, 80, 0, 40, -2, 100, 0, 100, 0, 100, 0>>, <<90, 0, 60, 4, 60, 4, 100, 0, 100, 0, 70, 0, 70, 0>>, <<90, 0, 60, 4, 60, 4, 100, 0, 80, 0, 100, 0, 70, 0>>,
      <<90, 0, 60, 4, 60, 4, 100, 0, 80, 0, 70, 0, 100, 0>>, <<90, 0, 60, 4, 60, 4, 100, 0, 60, 0, 100, 0, 100, 0>>, <<90, 0, 60, 4, 60, 4, 80, 0, 100, 0, 100, 0, 70, 0>>,
      <<90, 0, 60, 4, 60, 4, 80, 0, 100, 0, 70, 0, 100, 0>>, <<90, 0, 60, 4, 60, 0, 100, 0, 100, 0, 70, 0, 70, 0>>, <<90, 0, 60, 4, 60, 0, 100, 0, 80, 0, 100, 0, 70, 0>>,
      <<90, 0, 60, 4, 60, 0, 100, 0, 80, 0, 70, 0, 100, 0>>, <<90, 0, 60, 4, 60, 0, 100, 0, 60, 0, 100, 0, 100, 0>>, <<90, 0, 60, 4, 60, 0, 80, 0, 100, 0, 100, 0, 70, 0>>,
      <<90, 0, 60, 4, 60, 0, 80, 0, 100, 0, 70, 0, 100, 0>>, <<90, 0, 60, 4, 60, 0, 80, 0, 80, 0, 100, 0, 100, 0>>, <<90, 0, 60, 4, 60, 0, 60, 4, 100, 0, 100, 0, 100, 0>>,
      <<90, 0, 60, 4, 40, 2, 100, 0, 100, 0, 100, 0, 70, 0>>, <<90, 0, 60, 4, 40, 2, 100, 0, 100, 0, 70, 0, 100, 0>>, <<90, 0, 60, 4, 40, 2, 100, 0, 80, 0, 100, 0, 100, 0>>,
      <<90, 0, 60, 4, 40, 2, 80, 0, 100, 0, 100, 0, 100, 0>>, <<90, 0, 60, 4, 40, -2, 100, 0, 100, 0, 100, 0, 70, 0>>, <<90, 0, 60, 4, 40, -2, 100, 0, 100, 0, 70, 0, 100, 0>>,
      <<90, 0, 60, 4, 40, -2, 100, 0, 80, 0, 100, 0, 100, 0>>, <<90, 0, 60, 4, 40, -2, 80, 0, 100, 0, 100, 0, 100, 0>>, <<90, 0, 60, 4, 20, -2, 100, 0, 100, 0, 100, 0, 100, 0>>,
      <<90, 0, 60, 0, 100, 0, 100, 0, 60, 0, 70, 0, 70, 0>>, <<90, 0, 60, 0, 100, 0, 100, 0, 40, -2, 100, 0, 70, 0>>, <<90, 0, 60, 0, 100, 0, 100, 0, 40, -2, 70, 0, 100, 0>>,
      <<90, 0, 60, 0, 100, 0, 100, 0, 40, -4, 100, 0, 70, 0>>, <<90, 0, 60, 0, 100, 0, 100, 0, 40, -4, 70, 0, 100, 0>>, <<90, 0, 60, 0, 100, 0, 80, 0, 80, 0, 70, 0, 70, 0>>,
      <<90, 0, 60, 0, 100, 0, 80, 0, 60, 0, 100, 0, 70, 0>>, <<90, 0, 60, 0, 100, 0, 80, 0, 60, 0, 70, 0, 100, 0>>, <<90, 0, 60, 0, 100, 0, 80, 0, 40, -2, 100, 0, 100, 0>>,
      <<90, 0, 60, 0, 100, 0, 80, 0, 40, -4, 100, 0, 100, 0>>, <<90, 0, 60, 0, 100, 0, 70, 0, 70, 4, 100, 0, 70, 0>>, <<90, 0, 60, 0, 100, 0, 70, 0, 70, 4, 70, 0, 100, 0>>,
      <<90, 0, 60, 0, 100, 0, 70, 0, 70, 0, 100, 0, 70, 0>>, <<90, 0, 60, 0, 100, 0, 70, 0, 70, 0, 70, 0, 100, 0>>, <<90, 0, 60, 0, 100, 0, 70, 0, 50, -2, 100, 0, 100, 0>>,
      <<90, 0, 60, 0, 100, 0, 60, 4, 100, 0, 70, 0, 70, 0>>, <<90, 0, 60, 0, 100, 0, 60, 4, 80, 0, 100, 0, 70, 0>>, <<90, 0, 60, 0, 100, 0, 60, 4, 80, 0, 70, 0, 100, 0>>,
      <<90, 0, 60, 0, 100, 0, 60, 4, 60, 0, 100, 0, 100, 0>>, <<90, 0, 60, 0, 100, 0, 50, -2, 70, 4, 100, 0, 100, 0>>, <<90, 0, 60, 0, 100, 0, 50, -2, 70, 0, 100, 0, 100, 0>>,
      <<90, 0, 60, 0, 100, 0, 40, -2, 100, 0, 100, 0, 70, 0>>, <<90, 0, 60, 0, 100, 0, 40, -2, 100, 0, 70, 0, 100, 0>>, <<90, 0, 60, 0, 100, 0, 20, -2, 100, 0, 100, 0, 100, 0>>,
      <<90, 0, 60, 0, 80, 0, 100, 0, 80, 0, 70, 0, 70, 0>>, <<90, 0, 60, 0, 80, 0, 100, 0, 60, 0, 100, 0, 70, 0>>, <<90, 0, 60, 0, 80, 0, 100, 0, 60, 0, 70, 0, 100, 0>>,
      <<90, 0, 60, 0, 80, 0, 100, 0, 40, -2, 100, 0, 100, 0>>, <<90, 0, 60, 0, 80, 0, 100, 0, 40, -4, 100, 0, 100, 0>>, <<90, 0, 60, 0, 80, 0, 80, 0, 100, 0, 70, 0, 70, 0>>,
      <<90, 0, 60, 0, 80, 0, 80, 0, 80, 0, 100, 0, 70, 0>>, <<90, 0, 60, 0, 80, 0, 80, 0, 80, 0, 70, 0, 100, 0>>, <<90, 0, 60, 0, 80, 0, 80, 0, 60, 0, 100, 0, 100, 0>>,
      <<90, 0, 60, 0, 80, 0, 70, 0, 70, 4, 100, 0, 100, 0>>, <<90, 0, 60, 0, 80, 0, 70, 0, 70, 0, 100, 0, 100, 0>>, <<90, 0, 60, 0, 80, 0, 60, 4, 100, 0, 100, 0, 70, 0>>,
      <<90, 0, 60, 0, 80, 0, 60, 4, 100, 0, 70, 0, 100, 0>>, <<90, 0, 60, 0, 80, 0, 40, -2, 100, 0, 100, 0, 100, 0>>, <<90, 0, 60, 0, 60, 4, 100, 0, 100, 0, 70, 0, 70, 0>>,
      <<90, 0, 60, 0, 60, 4, 100, 0, 80, 0, 100, 0, 70, 0>>, <<90, 0, 60, 0, 60, 4, 100, 0, 80, 0, 70, 0, 100, 0>>, <<90, 0, 60, 0, 60, 4, 100, 0, 60, 0, 100, 0, 100, 0>>,
      <<90, 0, 60, 0, 60, 4, 80, 0, 100, 0, 100, 0, 70, 0>>, <<90, 0, 60, 0, 60, 4, 80, 0, 100, 0, 70, 0, 100, 0>>, <<90, 0, 60, 0, 60, 0, 100, 0, 100, 0, 70, 0, 70, 0>>,
      <<90, 0, 60, 0, 60, 0, 100, 0, 80, 0, 100, 0, 70, 0>>, <<90, 0, 60, 0, 60, 0, 100, 0, 80, 0, 70, 0, 100, 0>>, <<90, 0, 60, 0, 60, 0, 100, 0, 60, 0, 100, 0, 100, 0>>,
      <<90, 0, 60, 0, 60, 0, 80, 0, 100, 0, 100, 0, 70, 0>>, <<90, 0, 60, 0, 60, 0, 80, 0, 100, 0, 70, 0, 100, 0>>, <<90, 0, 60, 0, 60, 0, 80, 0, 80, 0, 100, 0, 100, 0>>,
      <<90, 0, 60, 0, 60, 0, 60, 4, 100, 0, 100, 0, 100, 0>>, <<90, 0, 60, 0, 40, 2, 100, 0, 100, 0, 100, 0, 70, 0>>, <<90, 0, 60, 0, 40, 2, 100, 0, 100, 0, 70, 0, 100, 0>>,
      <<90, 0, 60, 0, 40, 2, 100, 0, 80, 0, 100, 0, 100, 0>>, <<90, 0, 60, 0, 40, 2, 80, 0, 100, 0, 100, 0, 100, 0>>, <<90, 0, 60, 0, 40, -2, 100, 0, 100, 0, 100, 0, 70, 0>>,
      <<90, 0, 60, 0, 40, -2, 100, 0, 100, 0, 70, 0, 100, 0>>, <<90, 0, 60, 0, 40, -2, 100, 0, 80, 0, 100, 0, 100, 0>>, <<90, 0, 60, 0, 40, -2, 80, 0, 100, 0, 100, 0, 100, 0>>,
      <<90, 0, 60, 0, 20, -2, 100, 0, 100, 0, 100, 0, 100, 0>>, <<90, 0, 50, 4, 100, 0, 100, 0, 70, 4, 70, 0, 70, 0>>, <<90, 0, 50, 4, 100, 0, 100, 0, 70, 0, 70, 0, 70, 0>>,
      <<90, 0, 50, 4, 100, 0, 100, 0, 50, -2, 100, 0, 70, 0>>, <<90, 0, 50, 4, 100, 0, 100, 0, 50, -2, 70, 0, 100, 0>>, <<90, 0, 50, 4, 100, 0, 80, 0, 70, 4, 100, 0, 70, 0>>,
      <<90, 0, 50, 4, 100, 0, 80, 0, 70, 4, 70, 0, 100, 0>>, <<90, 0, 50, 4, 100, 0, 80, 0, 70, 0, 100, 0, 70, 0>>, <<90, 0, 50, 4, 100, 0, 80, 0, 70, 0, 70, 0, 100, 0>>,
      <<90, 0, 50, 4, 100, 0, 80, 0, 50, -2, 100, 0, 100, 0>>, <<90, 0, 50, 4, 100, 0, 70, 0, 100, 0, 70, 0, 70, 0>>, <<90, 0, 50, 4, 100, 0, 70, 0, 80, 0, 100, 0, 70, 0>>,
      <<90, 0, 50, 4, 100, 0, 70, 0, 80, 0, 70, 0, 100, 0>>, <<90, 0, 50, 4, 100, 0, 70, 0, 60, 0, 100, 0, 100, 0>>, <<90, 0, 50, 4, 100, 0, 50, -2, 100, 0, 100, 0, 70, 0>>,
      <<90, 0, 50, 4, 100, 0, 50, -2, 100, 0, 70, 0, 100, 0>>, <<90, 0, 50, 4, 100, 0, 50, -2, 80, 0, 100, 0, 100, 0>>, <<90, 0, 50, 4, 100, 0, 30, -2, 100, 0, 100, 0, 100, 0>>,
      <<90, 0, 50, 4, 80, 0, 100, 0, 70, 4, 100, 0, 70, 0>>, <<90, 0, 50, 4, 80, 0, 100, 0, 70, 4, 70, 0, 100, 0>>, <<90, 0, 50, 4, 80, 0, 100, 0, 70, 0, 100, 0, 70, 0>>,
      <<90, 0, 50, 4, 80, 0, 100, 0, 70, 0, 70, 0, 100, 0>>, <<90, 0, 50, 4, 80, 0, 100, 0, 50, -2, 100, 0, 100, 0>>, <<90, 0, 50, 4, 80, 0, 80, 0, 70, 4, 100, 0, 100, 0>>,
      <<90, 0, 50, 4, 80, 0, 80, 0, 70, 0, 100, 0, 100, 0>>, <<90, 0, 50, 4, 80, 0, 70, 0, 100, 0, 100, 0, 70, 0>>, <<90, 0, 50, 4, 80, 0, 70, 0, 100, 0, 70, 0, 100, 0>>,
      <<90, 0, 50, 4, 80, 0, 70, 0, 80, 0, 100, 0, 100, 0>>, <<90, 0, 50, 4, 80, 0, 50, -2, 100, 0, 100, 0, 100, 0>>, <<90, 0, 50, 4, 60, 4, 100, 0, 70, 4, 100, 0, 100, 0>>,
      <<90, 0, 50, 4, 60, 4, 100, 0, 70, 0, 100, 0, 100, 0>>, <<90, 0, 50, 4, 60, 4, 70, 0, 100, 0, 100, 0, 100, 0>>, <<90, 0, 50, 4, 60, 0, 100, 0, 70, 4, 100, 0, 100, 0>>,
      <<90, 0, 50, 4, 60, 0, 100, 0, 70, 0, 100, 0, 100, 0>>, <<90, 0, 50, 4, 60, 0, 70, 0, 100, 0, 100, 0, 100, 0>>, <<90, 0, 50, -2, 100, 0, 100, 0, 70, 4, 70, 0, 70, 0>>,
      <<90, 0, 50, -2, 100, 0, 100, 0, 70, 0, 70, 0, 70, 0>>, <<90, 0, 50, -2, 100, 0, 100, 0, 50, -2, 100, 0, 70, 0>>, <<90, 0, 50, -2, 100, 0, 100, 0, 50, -2, 70, 0, 100, 0>>,
      <<90, 0, 50, -2, 100, 0, 80, 0, 70, 4, 100, 0, 70, 0>>, <<90, 0, 50, -2, 100, 0, 80, 0, 70, 4, 70, 0, 100, 0>>, <<90, 0, 50, -2, 100, 0, 80, 0, 70, 0, 100, 0, 70, 0>>,
      <<90, 0, 50, -2, 100, 0, 80, 0, 70, 0, 70, 0, 100, 0>>, <<90, 0, 50, -2, 100, 0, 80, 0, 50, -2, 100, 0, 100, 0>>, <<90, 0, 50, -2, 100, 0, 70, 0, 100, 0, 70, 0, 70, 0>>,
      <<90, 0, 50, -2, 100, 0, 70, 0, 80, 0, 100, 0, 70, 0>>, <<90, 0, 50, -2, 100, 0, 70, 0, 80, 0, 70, 0, 100, 0>>, <<90, 0, 50, -2, 100, 0, 70, 0, 60, 0, 100, 0, 100, 0>>,
      <<90, 0, 50, -2, 100, 0, 50, -2, 100, 0, 100, 0, 70, 0>>, <<90, 0, 50, -2, 100, 0, 50, -2, 100, 0, 70, 0, 100, 0>>, <<90, 0, 50, -2, 100, 0, 50, -2, 80, 0, 100, 0, 100, 0>>,
      <<90, 0, 50, -2, 100, 0, 30, -2, 100, 0, 100, 0, 100, 0>>, <<90, 0, 50, -2, 80, 0, 100, 0, 70, 4, 100, 0, 70, 0>>, <<90, 0, 50, -2, 80, 0, 100, 0, 70, 4, 70, 0, 100, 0>>,
      <<90, 0, 50, -2, 80, 0, 100, 0, 70, 0, 100, 0, 70, 0>>, <<90, 0, 50, -2, 80, 0, 100, 0, 70, 0, 70, 0, 100, 0>>, <<90, 0, 50, -2, 80, 0, 100, 0, 50, -2, 100, 0, 100, 0>>,
      <<90, 0, 50, -2, 80, 0, 80, 0, 70, 4, 100, 0, 100, 0>>, <<90, 0, 50, -2, 80, 0, 80, 0, 70, 0, 100, 0, 100, 0>>, <<90, 0, 50, -2, 80, 0, 70, 0, 100, 0, 100, 0, 70, 0>>,
      <<90, 0, 50, -2, 80, 0, 70, 0, 100, 0, 70, 0, 100, 0>>, <<90, 0, 50, -2, 80, 0, 70, 0, 80, 0, 100, 0, 100, 0>>, <<90, 0, 50, -2, 80, 0, 50, -2, 100, 0, 100, 0, 100, 0>>,
      <<90, 0, 50, -2, 60, 4, 100, 0, 70, 4, 100, 0, 100, 0>>, <<90, 0, 50, -2, 60, 4, 100, 0, 70, 0, 100, 0, 100, 0>>, <<90, 0, 50, -2, 60, 4, 70, 0, 100, 0, 100, 0, 100, 0>>,
      <<90, 0, 50, -2, 60, 0, 100, 0, 70, 4, 100, 0, 100, 0>>, <<90, 0, 50, -2, 60, 0, 100, 0, 70, 0, 100, 0, 100, 0>>, <<90, 0, 50, -2, 60, 0, 70, 0, 100, 0, 100, 0, 100, 0>>,
      <<90, 0, 40, -4, 100, 0, 100, 0, 80, 0, 70, 0, 70, 0>>, <<90, 0, 40, -4, 100, 0, 100, 0, 60, 0, 100, 0, 70, 0>>, <<90, 0, 40, -4, 100, 0, 100, 0, 60, 0, 70, 0, 100, 0>>,
      <<90, 0, 40, -4, 100, 0, 100, 0, 40, -2, 100, 0, 100, 0>>, <<90, 0, 40, -4, 100, 0, 100, 0, 40, -4, 100, 0, 100, 0>>, <<90, 0, 40, -4, 100, 0, 80, 0, 100, 0, 70, 0, 70, 0>>,
      <<90, 0, 40, -4, 100, 0, 80, 0, 80, 0, 100, 0, 70, 0>>, <<90, 0, 40, -4, 100, 0, 80, 0, 80, 0, 70, 0, 100, 0>>, <<90, 0, 40, -4, 100, 0, 80, 0, 60, 0, 100, 0, 100, 0>>,
      <<90, 0, 40, -4, 100, 0, 70, 0, 70, 4, 100, 0, 100, 0>>, <<90, 0, 40, -4, 100, 0, 70, 0, 70, 0, 100, 0, 100, 0>>, <<90, 0, 40, -4, 100, 0, 60, 4, 100, 0, 100, 0, 70, 0>>,
      <<90, 0, 40, -4, 100, 0, 60, 4, 100, 0, 70, 0, 100, 0>>, <<90, 0, 40, -4, 100, 0, 40, -2, 100, 0, 100, 0, 100, 0>>, <<90, 0, 40, -4, 80, 0, 100, 0, 100, 0, 70, 0, 70, 0>>,
      <<90, 0, 40, -4, 80, 0, 100, 0, 80, 0, 100, 0, 70, 0>>, <<90, 0, 40, -4, 80, 0, 100, 0, 80, 0, 70, 0, 100, 0>>, <<90, 0, 40, -4, 80, 0, 100, 0, 60, 0, 100, 0, 100, 0>>,
      <<90, 0, 40, -4, 80, 0, 80, 0, 100, 0, 100, 0, 70, 0>>, <<90, 0, 40, -4, 80, 0, 80, 0, 100, 0, 70, 0, 100, 0>>, <<90, 0, 40, -4, 80, 0, 80, 0, 80, 0, 100, 0, 100, 0>>,
      <<90, 0, 40, -4, 80, 0, 60, 4, 100, 0, 100, 0, 100, 0>>, <<90, 0, 40, -4, 60, 4, 100, 0, 100, 0, 100, 0, 70, 0>>, <<90, 0, 40, -4, 60, 4, 100, 0, 100, 0, 70, 0, 100, 0>>,
      <<90, 0, 40, -4, 60, 4, 100, 0, 80, 0, 100, 0, 100, 0>>, <<90, 0, 40, -4, 60, 4, 80, 0, 100, 0, 100, 0, 100, 0>>, <<90, 0, 40, -4, 60, 0, 100, 0, 100, 0, 100, 0, 70, 0>>,
      <<90, 0, 40, -4, 60, 0, 100, 0, 100, 0, 70, 0, 100, 0>>, <<90, 0, 40, -4, 60, 0, 100, 0, 80, 0, 100, 0, 100, 0>>, <<90, 0, 40, -4, 60, 0, 80, 0, 100, 0, 100, 0, 100, 0>>,
      <<90, 0, 40, -4, 40, 2, 100, 0, 100, 0, 100, 0, 100, 0>>, <<90, 0, 40, -4, 40, -2, 100, 0, 100, 0, 100, 0, 100, 0>>, <<90, 0, 30, -2, 100, 0, 100, 0, 70, 4, 100, 0, 70, 0>>,
      <<90, 0, 30, -2, 100, 0, 100, 0, 70, 4, 70, 0, 100, 0>>, <<90, 0, 30, -2, 100, 0, 100, 0, 70, 0, 100, 0, 70, 0>>, <<90, 0, 30, -2, 100, 0, 100, 0, 70, 0, 70, 0, 100, 0>>,
      <<90, 0, 30, -2, 100, 0, 100, 0, 50, -2, 100, 0, 100, 0>>, <<90, 0, 30, -2, 100, 0, 80, 0, 70, 4, 100, 0, 100, 0>>, <<90, 0, 30, -2, 100, 0, 80, 0, 70, 0, 100, 0, 100, 0>>,
      <<90, 0, 30, -2, 100, 0, 70, 0, 100, 0, 100, 0, 70, 0>>, <<90, 0, 30, -2, 100, 0, 70, 0, 100, 0, 70, 0, 100, 0>>, <<90, 0, 30, -2, 100, 0, 70, 0, 80, 0, 100, 0, 100, 0>>,
      <<90, 0, 30, -2, 100, 0, 50, -2, 100, 0, 100, 0, 100, 0>>, <<90, 0, 30, -2, 80, 0, 100, 0, 70, 4, 100, 0, 100, 0>>, <<90, 0, 30, -2, 80, 0, 100, 0, 70, 0, 100, 0, 100, 0>>,
      <<90, 0, 30, -2, 80, 0, 70, 0, 100, 0, 100, 0, 100, 0>>, <<90, 0, 20, -3, 100, 0, 100, 0, 100, 0, 70, 0, 70, 0>>, <<90, 0, 20, -3, 100, 0, 100, 0, 80, 0, 100, 0, 70, 0>>,
      <<90, 0, 20, -3, 100, 0, 100, 0, 80, 0, 70, 0, 100, 0>>, <<90, 0, 20, -3, 100, 0, 100, 0, 60, 0, 100, 0, 100, 0>>, <<90, 0, 20, -3, 100, 0, 80, 0, 100, 0, 100, 0, 70, 0>>,
      <<90, 0, 20, -3, 100, 0, 80, 0, 100, 0, 70, 0, 100, 0>>, <<90, 0, 20, -3, 100, 0, 80, 0, 80, 0, 100, 0, 100, 0>>, <<90, 0, 20, -3, 100, 0, 60, 4, 100, 0, 100, 0, 100, 0>>,
      <<90, 0, 20, -3, 80, 0, 100, 0, 100, 0, 100, 0, 70, 0>>, <<90, 0, 20, -3, 80, 0, 100, 0, 100, 0, 70, 0, 100, 0>>, <<90, 0, 20, -3, 80, 0, 100, 0, 80, 0, 100, 0, 100, 0>>,
      <<90, 0, 20, -3, 80, 0, 80, 0, 100, 0, 100, 0, 100, 0>>, <<80, 0, 100, 0, 100, 0, 100, 0, 40, -2, 60, 0, 70, 0>>, <<80, 0, 100, 0, 100, 0, 100, 0, 40, -4, 60, 0, 70, 0>>,
      <<80, 0, 100, 0, 100, 0, 80, 0, 60, 0, 60, 0, 70, 0>>, <<80, 0, 100, 0, 100, 0, 80, 0, 40, -2, 60, 0, 100, 0>>, <<80, 0, 100, 0, 100, 0, 80, 0, 40, -4, 60, 0, 100, 0>>,
      <<80, 0, 100, 0, 100, 0, 70, 0, 70, 4, 60, 0, 70, 0>>, <<80, 0, 100, 0, 100, 0, 70, 0, 70, 0, 60, 0, 70, 0>>, <<80, 0, 100, 0, 100, 0, 70, 0, 50, -2, 60, 0, 100, 0>>,
      <<80, 0, 100, 0, 100, 0, 60, 4, 80, 0, 60, 0, 70, 0>>, <<80, 0, 100, 0, 100, 0, 60, 4, 60, 0, 60, 0, 100, 0>>, <<80, 0, 100, 0, 100, 0, 50, -2, 70, 4, 60, 0, 100, 0>>,
      <<80, 0, 100, 0, 100, 0, 50, -2, 70, 0, 60, 0, 100, 0>>, <<80, 0, 100, 0, 100, 0, 40, -2, 100, 0, 60, 0, 70, 0>>, <<80, 0, 100, 0, 100, 0, 40, -2, 80, 0, 60, 0, 100, 0>>,
      <<80, 0, 100, 0, 100, 0, 20, -2, 100, 0, 60, 0, 100, 0>>, <<80, 0, 100, 0, 80, 0, 100, 0, 60, 0, 60, 0, 70, 0>>, <<80, 0, 100, 0, 80, 0, 100, 0, 40, -2, 60, 0, 100, 0>>,
      <<80, 0, 100, 0, 80, 0, 100, 0, 40, -4, 60, 0, 100, 0>>, <<80, 0, 100, 0, 80, 0, 80, 0, 80, 0, 60, 0, 70, 0>>, <<80, 0, 100, 0, 80, 0, 80, 0, 60, 0, 60, 0, 100, 0>>,
      <<80, 0, 100, 0, 80, 0, 70, 0, 70, 4, 60, 0, 100, 0>>, <<80, 0, 100, 0, 80, 0, 70, 0, 70, 0, 60, 0, 100, 0>>, <<80, 0, 100, 0, 80, 0, 60, 4, 100, 0, 60, 0, 70, 0>>,
      <<80, 0, 100, 0, 80, 0, 60, 4, 80, 0, 60, 0, 100, 0>>, <<80, 0, 100, 0, 80, 0, 40, -2, 100, 0, 60, 0, 100, 0>>, <<80, 0, 100, 0, 60, 4, 100, 0, 80, 0, 60, 0, 70, 0>>,
      <<80, 0, 100, 0, 60, 4, 100, 0, 60, 0, 60, 0, 100, 0>>, <<80, 0, 100, 0, 60, 4, 80, 0, 100, 0, 60, 0, 70, 0>>, <<80, 0, 100, 0, 60, 4, 80, 0, 80, 0, 60, 0, 100, 0>>,
      <<80, 0, 100, 0, 60, 0, 100, 0, 80, 0, 60, 0, 70, 0>>, <<80, 0, 100, 0, 60, 0, 100, 0, 60, 0, 60, 0, 100, 0>>, <<80, 0, 100, 0, 60, 0, 80, 0, 100, 0, 60, 0, 70, 0>>,
      <<80, 0, 100, 0, 60, 0, 80, 0, 80, 0, 60, 0, 100, 0>>, <<80, 0, 100, 0, 60, 0, 60, 4, 100, 0, 60, 0, 100, 0>>, <<80, 0, 100, 0, 40, 2, 100, 0, 100, 0, 60, 0, 70, 0>>,
      <<80, 0, 100, 0, 40, 2, 100, 0, 80, 0, 60, 0, 100, 0>>, <<80, 0, 100, 0, 40, 2, 80, 0, 100, 0, 60, 0, 100, 0>>, <<80, 0, 100, 0, 40, -2, 100, 0, 100, 0, 60, 0, 70, 0>>,
      <<80, 0, 100, 0, 40, -2, 100, 0, 80, 0, 60, 0, 100, 0>>, <<80, 0, 100, 0, 40, -2, 80, 0, 100, 0, 60, 0, 100, 0>>, <<80, 0, 100, 0, 20, -2, 100, 0, 100, 0, 60, 0, 100, 0>>,
      <<80, 0, 80, 0, 100, 0, 100, 0, 60, 0, 60, 0, 70, 0>>, <<80, 0, 80, 0, 100, 0, 100, 0, 40, -2, 60, 0, 100, 0>>, <<80, 0, 80, 0, 100, 0, 100, 0, 40, -4, 60, 0, 100, 0>>,
      <<80, 0, 80, 0, 100, 0, 80, 0, 80, 0, 60, 0, 70, 0>>, <<80, 0, 80, 0, 100, 0, 80, 0, 60, 0, 60, 0, 100, 0>>, <<80, 0, 80, 0, 100, 0, 70, 0, 70, 4, 60, 0, 100, 0>>,
      <<80, 0, 80, 0, 100, 0, 70, 0, 70, 0, 60, 0, 100, 0>>, <<80, 0, 80, 0, 100, 0, 60, 4, 100, 0, 60, 0, 70, 0>>, <<80, 0, 80, 0, 100, 0, 60, 4, 80, 0, 60, 0, 100, 0>>,
      <<80, 0, 80, 0, 100, 0, 40, -2, 100, 0, 60, 0, 100, 0>>, <<80, 0, 80, 0, 80, 0, 100, 0, 80, 0, 60, 0, 70, 0>>, <<80, 0, 80, 0, 80, 0, 100, 0, 60, 0, 60, 0, 100, 0>>,
      <<80, 0, 80, 0, 80, 0, 80, 0, 100, 0, 60, 0, 70, 0>>, <<80, 0, 80, 0, 80, 0, 80, 0, 80, 0, 60, 0, 100, 0>>, <<80, 0, 80, 0, 80, 0, 60, 4, 100, 0, 60, 0, 100, 0>>,
      <<80, 0, 80, 0, 60, 4, 100, 0, 100, 0, 60, 0, 70, 0>>, <<80, 0, 80, 0, 60, 4, 100, 0, 80, 0, 60, 0, 100, 0>>, <<80, 0, 80, 0, 60, 4, 80, 0, 100, 0, 60, 0, 100, 0>>,
      <<80, 0, 80, 0, 60, 0, 100, 0, 100, 0, 60, 0, 70, 0>>, <<80, 0, 80, 0, 60, 0, 100, 0, 80, 0, 60, 0, 100, 0>>, <<80, 0, 80, 0, 60, 0, 80, 0, 100, 0, 60, 0, 100, 0>>,
      <<80, 0, 80, 0, 40, 2, 100, 0, 100, 0, 60, 0, 100, 0>>, <<80, 0, 80, 0, 40, -2, 100, 0, 100, 0, 60, 0, 100, 0>>, <<80, 0, 70, 4, 100, 0, 100, 0, 70, 4, 60, 0, 70, 0>>,
      <<80, 0, 70, 4, 100, 0, 100, 0, 70, 0, 60, 0, 70, 0>>, <<80, 0, 70, 4, 100, 0, 100, 0, 50, -2, 60, 0, 100, 0>>, <<80, 0, 70, 4, 100, 0, 80, 0, 70, 4, 60, 0, 100, 0>>,
      <<80, 0, 70, 4, 100, 0, 80, 0, 70, 0, 60, 0, 100, 0>>, <<80, 0, 70, 4, 100, 0, 70, 0, 100, 0, 60, 0, 70, 0>>, <<80, 0, 70, 4, 100, 0, 70, 0, 80, 0, 60, 0, 100, 0>>,
      <<80, 0, 70, 4, 100, 0, 50, -2, 100, 0, 60, 0, 100, 0>>, <<80, 0, 70, 4, 80, 0, 100, 0, 70, 4, 60, 0, 100, 0>>, <<80, 0, 70, 4, 80, 0, 100, 0, 70, 0, 60, 0, 100, 0>>,
      <<80, 0, 70, 4, 80, 0, 70, 0, 100, 0, 60, 0, 100, 0>>, <<80, 0, 70, 0, 100, 0, 100, 0, 70, 4, 60, 0, 70, 0>>, <<80, 0, 70, 0, 100, 0, 100, 0, 70, 0, 60, 0, 70, 0>>,
      <<80, 0, 70, 0, 100, 0, 100, 0, 50, -2, 60, 0, 100, 0>>, <<80, 0, 70, 0, 100, 0, 80, 0, 70, 4, 60, 0, 100, 0>>, <<80, 0, 70, 0, 100, 0, 80, 0, 70, 0, 60, 0, 100, 0>>,
      <<80, 0, 70, 0, 100, 0, 70, 0, 100, 0, 60, 0, 70, 0>>, <<80, 0, 70, 0, 100, 0, 70, 0, 80, 0, 60, 0, 100, 0>>, <<80, 0, 70, 0, 100, 0, 50, -2, 100, 0, 60, 0, 100, 0>>,
      <<80, 0, 70, 0, 80, 0, 100, 0, 70, 4, 60, 0, 100, 0>>, <<80, 0, 70, 0, 80, 0, 100, 0, 70, 0, 60, 0, 100, 0>>, <<80, 0, 70, 0, 80, 0, 70, 0, 100, 0, 60, 0, 100, 0>>,
      <<80, 0, 60, 4, 100, 0, 100, 0, 80, 0, 60, 0, 70, 0>>, <<80, 0, 60, 4, 100, 0, 100, 0, 60, 0, 60, 0, 100, 0>>, <<80, 0, 60, 4, 100, 0, 80, 0, 100, 0, 60, 0, 70, 0>>,
      <<80, 0, 60, 4, 100, 0, 80, 0, 80, 0, 60, 0, 100, 0>>, <<80, 0, 60, 4, 100, 0, 60, 4, 100, 0, 60, 0, 100, 0>>, <<80, 0, 60, 4, 80, 0, 100, 0, 100, 0, 60, 0, 70, 0>>,
      <<80, 0, 60, 4, 80, 0, 100, 0, 80, 0, 60, 0, 100, 0>>, <<80, 0, 60, 4, 80, 0, 80, 0, 100, 0, 60, 0, 100, 0>>, <<80, 0, 60, 0, 100, 0, 100, 0, 80, 0, 60, 0, 70, 0>>,
      <<80, 0, 60, 0, 100, 0, 100, 0, 60, 0, 60, 0, 100, 0>>, <<80, 0, 60, 0, 100, 0, 80, 0, 100, 0, 60, 0, 70, 0>>, <<80, 0, 60, 0, 100, 0, 80, 0, 80, 0, 60, 0, 100, 0>>,
      <<80, 0, 60, 0, 100, 0, 60, 4, 100, 0, 60, 0, 100, 0>>, <<80, 0, 60, 0, 80, 0, 100, 0, 100, 0, 60, 0, 70, 0>>, <<80, 0, 60, 0, 80, 0, 100, 0, 80, 0, 60, 0, 100, 0>>,
      <<80, 0, 60, 0, 80, 0, 80, 0, 100, 0, 60, 0, 100, 0>>, <<80, 0, 60, 0, 60, 4, 100, 0, 100, 0, 60, 0, 100, 0>>, <<80, 0, 60, 0, 60, 0, 100, 0, 100, 0, 60, 0, 100, 0>>,
      <<80, 0, 50, 4, 100, 0, 100, 0, 70, 4, 60, 0, 100, 0>>, <<80, 0, 50, 4, 100, 0, 100, 0, 70, 0, 60, 0, 100, 0>>, <<80, 0, 50, 4, 100, 0, 70, 0, 100, 0, 60, 0, 100, 0>>,
      <<80, 0, 50, -2, 100, 0, 100, 0, 70, 4, 60, 0, 100, 0>>, <<80, 0, 50, -2, 100, 0, 100, 0, 70, 0, 60, 0, 100, 0>>, <<80, 0, 50, -2, 100, 0, 70, 0, 100, 0, 60, 0, 100, 0>>,
      <<80, 0, 40, -4, 100, 0, 100, 0, 100, 0, 60, 0, 70, 0>>, <<80, 0, 40, -4, 100, 0, 100, 0, 80, 0, 60, 0, 100, 0>>, <<80, 0, 40, -4, 100, 0, 80, 0, 100, 0, 60, 0, 100, 0>>,
      <<80, 0, 40, -4, 80, 0, 100, 0, 100, 0, 60, 0, 100, 0>>, <<80, 0, 20, -3, 100, 0, 100, 0, 100, 0, 60, 0, 100, 0>>, <<70, 0, 100, 0, 100, 0, 100, 0, 80, 0, 70, 0, 20, 0>>,
      <<70, 0, 100, 0, 100, 0, 100, 0, 60, 0, 100, 0, 20, 0>>, <<70, 0, 100, 0, 100, 0, 100, 0, 60, 0, 70, 0, 50, -2>>, <<70, 0, 100, 0, 100, 0, 100, 0, 40, -2, 100, 0, 50, -2>>,
      <<70, 0, 100, 0, 100, 0, 100, 0, 40, -2, 70, 0, 80, 0>>, <<70, 0, 100, 0, 100, 0, 100, 0, 40, -4, 100, 0, 50, -2>>, <<70, 0, 100, 0, 100, 0, 100, 0, 40, -4, 70, 0, 80, 0>>,
      <<70, 0, 100, 0, 100, 0, 80, 0, 100, 0, 70, 0, 20, 0>>, <<70, 0, 100, 0, 100, 0, 80, 0, 80, 0, 100, 0, 20, 0>>, <<70, 0, 100, 0, 100, 0, 80, 0, 80, 0, 70, 0, 50, -2>>,
      <<70, 0, 100, 0, 100, 0, 80, 0, 60, 0, 100, 0, 50, -2>>, <<70, 0, 100, 0, 100, 0, 80, 0, 60, 0, 70, 0, 80, 0>>, <<70, 0, 100, 0, 100, 0, 80, 0, 40, -2, 100, 0, 80, 0>>,
      <<70, 0, 100, 0, 100, 0, 80, 0, 40, -4, 100, 0, 80, 0>>, <<70, 0, 100, 0, 100, 0, 70, 0, 70, 4, 100, 0, 50, -2>>, <<70, 0, 100, 0, 100, 0, 70, 0, 70, 4, 70, 0, 80, 0>>,
      <<70, 0, 100, 0, 100, 0, 70, 0, 70, 0, 100, 0, 50, -2>>, <<70, 0, 100, 0, 100, 0, 70, 0, 70, 0, 70, 0, 80, 0>>, <<70, 0, 100, 0, 100, 0, 70, 0, 50, -2, 100, 0, 80, 0>>,
      <<70, 0, 100, 0, 100, 0, 60, 4, 100, 0, 100, 0, 20, 0>>, <<70, 0, 100, 0, 100, 0, 60, 4, 100, 0, 70, 0, 50, -2>>, <<70, 0, 100, 0, 100, 0, 60, 4, 80, 0, 100, 0, 50, -2>>,
      <<70, 0, 100, 0, 100, 0, 60, 4, 80, 0, 70, 0, 80, 0>>, <<70, 0, 100, 0, 100, 0, 60, 4, 60, 0, 100, 0, 80, 0>>, <<70, 0, 100, 0, 100, 0, 50, -2, 70, 4, 100, 0, 80, 0>>,
      <<70, 0, 100, 0, 100, 0, 50, -2, 70, 0, 100, 0, 80, 0>>, <<70, 0, 100, 0, 100, 0, 40, -2, 100, 0, 100, 0, 50, -2>>, <<70, 0, 100, 0, 100, 0, 40, -2, 100, 0, 70, 0, 80, 0>>,
      <<70, 0, 100, 0, 100, 0, 40, -2, 80, 0, 100, 0, 80, 0>>, <<70, 0, 100, 0, 100, 0, 20, -2, 100, 0, 100, 0, 80, 0>>, <<70, 0, 100, 0, 80, 0, 100, 0, 100, 0, 70, 0, 20, 0>>,
      <<70, 0, 100, 0, 80, 0, 100, 0, 80, 0, 100, 0, 20, 0>>, <<70, 0, 100, 0, 80, 0, 100, 0, 80, 0, 70, 0, 50, -2>>, <<70, 0, 100, 0, 80, 0, 100, 0, 60, 0, 100, 0, 50, -2>>,
      <<70, 0, 100, 0, 80, 0, 100, 0, 60, 0, 70, 0, 80, 0>>, <<70, 0, 100, 0, 80, 0, 100, 0, 40, -2, 100, 0, 80, 0>>, <<70, 0, 100, 0, 80, 0, 100, 0, 40, -4, 100, 0, 80, 0>>,
      <<60, 4, 100, 0, 100, 0, 100, 0, 60, 0, 70, 0, 70, 0>>, <<60, 4, 100, 0, 100, 0, 100, 0, 40, -2, 100, 0, 70, 0>>, <<60, 4, 100, 0, 100, 0, 100, 0, 40, -2, 70, 0, 100, 0>>,
      <<60, 4, 100, 0, 100, 0, 100, 0, 40, -4, 100, 0, 70, 0>>, <<60, 4, 100, 0, 100, 0, 100, 0, 40, -4, 70, 0, 100, 0>>, <<60, 4, 100, 0, 100, 0, 80, 0, 80, 0, 70, 0, 70, 0>>,
      <<60, 4, 100, 0, 100, 0, 80, 0, 60, 0, 100, 0, 70, 0>>, <<60, 4, 100, 0, 100, 0, 80, 0, 60, 0, 70, 0, 100, 0>>, <<60, 4, 100, 0, 100, 0, 80, 0, 40, -2, 100, 0, 100, 0>>,
      <<60, 4, 100, 0, 100, 0, 80, 0, 40, -4, 100, 0, 100, 0>>, <<60, 4, 100, 0, 100, 0, 70, 0, 70, 4, 100, 0, 70, 0>>, <<60, 4, 100, 0, 100, 0, 70, 0, 70, 4, 70, 0, 100, 0>>,
      <<60, 4, 100, 0, 100, 0, 70, 0, 70, 0, 100, 0, 70, 0>>, <<60, 4, 100, 0, 100, 0, 70, 0, 70, 0, 70, 0, 100, 0>>, <<60, 4, 100, 0, 100, 0, 70, 0, 50, -2, 100, 0, 100, 0>>,
      <<60, 4, 100, 0, 100, 0, 60, 4, 100, 0, 70, 0, 70, 0>>, <<60, 4, 100, 0, 100, 0, 60, 4, 80, 0, 100, 0, 70, 0>>, <<60, 4, 100, 0, 100, 0, 60, 4, 80, 0, 70, 0, 100, 0>>,
      <<60, 4, 100, 0, 100, 0, 60, 4, 60, 0, 100, 0, 100, 0>>, <<60, 4, 100, 0, 100, 0, 50, -2, 70, 4, 100, 0, 100, 0>>, <<60, 4, 100, 0, 100, 0, 50, -2, 70, 0, 100, 0, 100, 0>>,
      <<60, 4, 100, 0, 100, 0, 40, -2, 100, 0, 100, 0, 70, 0>>, <<60, 4, 100, 0, 100, 0, 40, -2, 100, 0, 70, 0, 100, 0>>, <<60, 4, 100, 0, 100, 0, 20, -2, 100, 0, 100, 0, 100, 0>>,
      <<60, 4, 100, 0, 80, 0, 100, 0, 80, 0, 70, 0, 70, 0>>, <<60, 4, 100, 0, 80, 0, 100, 0, 60, 0, 100, 0, 70, 0>>, <<60, 4, 100, 0, 80, 0, 100, 0, 60, 0, 70, 0, 100, 0>>,
      <<60, 4, 100, 0, 80, 0, 100, 0, 40, -2, 100, 0, 100, 0>>, <<60, 4, 100, 0, 80, 0, 100, 0, 40, -4, 100, 0, 100, 0>>, <<60, 4, 100, 0, 80, 0, 80, 0, 100, 0, 70, 0, 70, 0>>,
      <<60, 4, 100, 0, 80, 0, 80, 0, 80, 0, 100, 0, 70, 0>>, <<60, 4, 100, 0, 80, 0, 80, 0, 80, 0, 70, 0, 100, 0>>, <<60, 4, 100, 0, 80, 0, 80, 0, 60, 0, 100, 0, 100, 0>>,
      <<60, 4, 100, 0, 80, 0, 70, 0, 70, 4, 100, 0, 100, 0>>, <<60, 4, 100, 0, 80, 0, 70, 0, 70, 0, 100, 0, 100, 0>>, <<60, 4, 100, 0, 80, 0, 60, 4, 100, 0, 100, 0, 70, 0>>,
      <<60, 4, 100, 0, 80, 0, 60, 4, 100, 0, 70, 0, 100, 0>>, <<60, 4, 100, 0, 80, 0, 40, -2, 100, 0, 100, 0, 100, 0>>, <<60, 4, 100, 0, 60, 4, 100, 0, 100, 0, 70, 0, 70, 0>>,
      <<60, 4, 100, 0, 60, 4, 100, 0, 80, 0, 100, 0, 70, 0>>, <<60, 4, 100, 0, 60, 4, 100, 0, 80, 0, 70, 0, 100, 0>>, <<60, 4, 100, 0, 60, 4, 100, 0, 60, 0, 100, 0, 100, 0>>,
      <<60, 4, 100, 0, 60, 4, 80, 0, 100, 0, 100, 0, 70, 0>>, <<60, 4, 100, 0, 60, 4, 80, 0, 100, 0, 70, 0, 100, 0>>, <<60, 4, 100, 0, 60, 0, 100, 0, 100, 0, 70, 0, 70, 0>>,
      <<60, 4, 100, 0, 60, 0, 100, 0, 80, 0, 100, 0, 70, 0>>, <<60, 4, 100, 0, 60, 0, 100, 0, 80, 0, 70, 0, 100, 0>>, <<60, 4, 100, 0, 60, 0, 100, 0, 60, 0, 100, 0, 100, 0>>,
      <<60, 4, 100, 0, 60, 0, 80, 0, 100, 0, 100, 0, 70, 0>>, <<60, 4, 100, 0, 60, 0, 80, 0, 100, 0, 70, 0, 100, 0>>, <<60, 4, 100, 0, 60, 0, 80, 0, 80, 0, 100, 0, 100, 0>>,
      <<60, 4, 100, 0, 60, 0, 60, 4, 100, 0, 100, 0, 100, 0>>, <<60, 4, 100, 0, 40, 2, 100, 0, 100, 0, 100, 0, 70, 0>>, <<60, 4, 100, 0, 40, 2, 100, 0, 100, 0, 70, 0, 100, 0>>,
      <<60, 4, 100, 0, 40, 2, 100, 0, 80, 0, 100, 0, 100, 0>>, <<60, 4, 100, 0, 40, 2, 80, 0, 100, 0, 100, 0, 100, 0>>, <<60, 4, 100, 0, 40, -2, 100, 0, 100, 0, 100, 0, 70, 0>>,
      <<60, 4, 100, 0, 40, -2, 100, 0, 100, 0, 70, 0, 100, 0>>, <<60, 4, 100, 0, 40, -2, 100, 0, 80, 0, 100, 0, 100, 0>>, <<60, 4, 100, 0, 40, -2, 80, 0, 100, 0, 100, 0, 100, 0>>,
      <<60, 4, 100, 0, 20, -2, 100, 0, 100, 0, 100, 0, 100, 0>>, <<60, 4, 80, 0, 100, 0, 100, 0, 80, 0, 70, 0, 70, 0>>, <<60, 4, 80, 0, 100, 0, 100, 0, 60, 0, 100, 0, 70, 0>>,
      <<60, 4, 80, 0, 100, 0, 100, 0, 60, 0, 70, 0, 100, 0>>, <<60, 4, 80, 0, 100, 0, 100, 0, 40, -2, 100, 0, 100, 0>>, <<60, 4, 80, 0, 100, 0, 100, 0, 40, -4, 100, 0, 100, 0>>,
      <<60, 4, 80, 0, 100, 0, 80, 0, 100, 0, 70, 0, 70, 0>>, <<60, 4, 80, 0, 100, 0, 80, 0, 80, 0, 100, 0, 70, 0>>, <<60, 4, 80, 0, 100, 0, 80, 0, 80, 0, 70, 0, 100, 0>>,
      <<60, 4, 80, 0, 100, 0, 80, 0, 60, 0, 100, 0, 100, 0>>, <<60, 4, 80, 0, 100, 0, 70, 0, 70, 4, 100, 0, 100, 0>>, <<60, 4, 80, 0, 100, 0, 70, 0, 70, 0, 100, 0, 100, 0>>,
      <<60, 4, 80, 0, 100, 0, 60, 4, 100, 0, 100, 0, 70, 0>>, <<60, 4, 80, 0, 100, 0, 60, 4, 100, 0, 70, 0, 100, 0>>, <<60, 4, 80, 0, 100, 0, 40, -2, 100, 0, 100, 0, 100, 0>>,
      <<60, 4, 80, 0, 80, 0, 100, 0, 100, 0, 70, 0, 70, 0>>, <<60, 4, 80, 0, 80, 0, 100, 0, 80, 0, 100, 0, 70, 0>>, <<60, 4, 80, 0, 80, 0, 100, 0, 80, 0, 70, 0, 100, 0>>,
      <<60, 4, 80, 0, 80, 0, 100, 0, 60, 0, 100, 0, 100, 0>>, <<60, 4, 80, 0, 80, 0, 80, 0, 100, 0, 100, 0, 70, 0>>, <<60, 4, 80, 0, 80, 0, 80, 0, 100, 0, 70, 0, 100, 0>>,
      <<60, 4, 80, 0, 80, 0, 80, 0, 80, 0, 100, 0, 100, 0>>, <<60, 4, 80, 0, 80, 0, 60, 4, 100, 0, 100, 0, 100, 0>>, <<60, 4, 80, 0, 60, 4, 100, 0, 100, 0, 100, 0, 70, 0>>,
      <<60, 4, 80, 0, 60, 4, 100, 0, 100, 0, 70, 0, 100, 0>>, <<60, 4, 80, 0, 60, 4, 100, 0, 80, 0, 100, 0, 100, 0>>, <<60, 4, 80, 0, 60, 4, 80, 0, 100, 0, 100, 0, 100, 0>>,
      <<60, 4, 80, 0, 60, 0, 100, 0, 100, 0, 100, 0, 70, 0>>, <<60, 4, 80, 0, 60, 0, 100, 0, 100, 0, 70, 0, 100, 0>>, <<60, 4, 80, 0, 60, 0, 100, 0, 80, 0, 100, 0, 100, 0>>,
      <<60, 4, 80, 0, 60, 0, 80, 0, 100, 0, 100, 0, 100, 0>>, <<60, 4, 80, 0, 40, -2, 100, 0, 100, 0, 100, 0, 100, 0>>, <<60, 4, 70, 4, 100, 0, 100, 0, 70, 4, 100, 0, 70, 0>>,
      <<60, 4, 70, 4, 100, 0, 100, 0, 70, 4, 70, 0, 100, 0>>, <<60, 4, 70, 4, 100, 0, 100, 0, 70, 0, 100, 0, 70, 0>>, <<60, 4, 70, 4, 100, 0, 100, 0, 70, 0, 70, 0, 100, 0>>,
      <<60, 4, 70, 4, 100, 0, 100, 0, 50, -2, 100, 0, 100, 0>>, <<60, 4, 70, 4, 100, 0, 80, 0, 70, 4, 100, 0, 100, 0>>, <<60, 4, 70, 4, 100, 0, 80, 0, 70, 0, 100, 0, 100, 0>>,
      <<60, 4, 70, 4, 100, 0, 70, 0, 100, 0, 100, 0, 70, 0>>, <<60, 4, 70, 4, 100, 0, 70, 0, 100, 0, 70, 0, 100, 0>>, <<60, 4, 70, 4, 100, 0, 70, 0, 80, 0, 100, 0, 100, 0>>,
      <<60, 4, 70, 4, 100, 0, 50, -2, 100, 0, 100, 0, 100, 0>>, <<60, 4, 70, 4, 80, 0, 100, 0, 70, 4, 100, 0, 100, 0>>, <<60, 4, 70, 4, 80, 0, 100, 0, 70, 0, 100, 0, 100, 0>>,
      <<60, 4, 70, 4, 80, 0, 70, 0, 100, 0, 100, 0, 100, 0>>, <<60, 4, 70, 0, 100, 0, 100, 0, 70, 4, 100, 0, 70, 0>>, <<60, 4, 70, 0, 100, 0, 100, 0, 70, 4, 70, 0, 100, 0>>,
      <<60, 4, 70, 0, 100, 0, 100, 0, 70, 0, 100, 0, 70, 0>>, <<60, 4, 70, 0, 100, 0, 100, 0, 70, 0, 70, 0, 100, 0>>, <<60, 4, 70, 0, 100, 0, 100, 0, 50, -2, 100, 0, 100, 0>>,
      <<60, 4, 70, 0, 100, 0, 80, 0, 70, 4, 100, 0, 100, 0>>, <<60, 4, 70, 0, 100, 0, 80, 0, 70, 0, 100, 0, 100, 0>>, <<60, 4, 70, 0, 100, 0, 70, 0, 100, 0, 100, 0, 70, 0>>,
      <<60, 4, 70, 0, 100, 0, 70, 0, 100, 0, 70, 0, 100, 0>>, <<60, 4, 70, 0, 100, 0, 70, 0, 80, 0, 100, 0, 100, 0>>, <<60, 4, 70, 0, 100, 0, 50, -2, 100, 0, 100, 0, 100, 0>>,
      <<60, 4, 70, 0, 80, 0, 100, 0, 70, 4, 100, 0, 100, 0>>, <<60, 4, 70, 0, 80, 0, 100, 0, 70, 0, 100, 0, 100, 0>>, <<60, 4, 70, 0, 80, 0, 70, 0, 100, 0, 100, 0, 100, 0>>,
      <<60, 4, 60, 4, 100, 0, 100, 0, 100, 0, 70, 0, 70, 0>>, <<60, 4, 60, 4, 100, 0, 100, 0, 80, 0, 100, 0, 70, 0>>, <<60, 4, 60, 4, 100, 0, 100, 0, 80, 0, 70, 0, 100, 0>>,
      <<60, 4, 60, 4, 100, 0, 100, 0, 60, 0, 100, 0, 100, 0>>, <<60, 4, 60, 4, 100, 0, 80, 0, 100, 0, 100, 0, 70, 0>>, <<60, 4, 60, 4, 100, 0, 80, 0, 100, 0, 70, 0, 100, 0>>,
      <<60, 4, 60, 4, 100, 0, 80, 0, 80, 0, 100, 0, 100, 0>>, <<60, 4, 60, 4, 100, 0, 60, 4, 100, 0, 100, 0, 100, 0>>, <<60, 4, 60, 4, 80, 0, 100, 0, 100, 0, 100, 0, 70, 0>>,
      <<60, 4, 60, 4, 80, 0, 100, 0, 100, 0, 70, 0, 100, 0>>, <<60, 4, 60, 4, 80, 0, 100, 0, 80, 0, 100, 0, 100, 0>>, <<60, 4, 60, 4, 80, 0, 80, 0, 100, 0, 100, 0, 100, 0>>,
      <<60, 4, 60, 0, 100, 0, 100, 0, 100, 0, 70, 0, 70, 0>>, <<60, 4, 60, 0, 100, 0, 100, 0, 80, 0, 100, 0, 70, 0>>, <<60, 4, 60, 0, 100, 0, 100, 0, 80, 0, 70, 0, 100, 0>>,
      <<60, 4, 60, 0, 100, 0, 100, 0, 60, 0, 100, 0, 100, 0>>, <<60, 4, 60, 0, 100, 0, 80, 0, 100, 0, 100, 0, 70, 0>>, <<60, 4, 60, 0, 100, 0, 80, 0, 100, 0, 70, 0, 100, 0>>,
      <<60, 4, 60, 0, 100, 0, 80, 0, 80, 0, 100, 0, 100, 0>>, <<60, 4, 60, 0, 100, 0, 60, 4, 100, 0, 100, 0, 100, 0>>, <<60, 4, 60, 0, 80, 0, 100, 0, 100, 0, 100, 0, 70, 0>>,
      <<60, 4, 60, 0, 80, 0, 100, 0, 100, 0, 70, 0, 100, 0>>, <<60, 4, 60, 0, 80, 0, 100, 0, 80, 0, 100, 0, 100, 0>>, <<60, 4, 60, 0, 80, 0, 80, 0, 100, 0, 100, 0, 100, 0>>,
      <<60, 4, 50, 4, 100, 0, 100, 0, 70, 4, 100, 0, 100, 0>>, <<60, 4, 50, 4, 100, 0, 100, 0, 70, 0, 100, 0, 100, 0>>, <<60, 4, 50, 4, 100, 0, 70, 0, 100, 0, 100, 0, 100, 0>>,
      <<60, 4, 50, -2, 100, 0, 100, 0, 70, 4, 100, 0, 100, 0>>, <<60, 4, 50, -2, 100, 0, 100, 0, 70, 0, 100, 0, 100, 0>>, <<60, 4, 50, -2, 100, 0, 70, 0, 100, 0, 100, 0, 100, 0>>,
      <<60, 4, 40, -4, 100, 0, 100, 0, 100, 0, 100, 0, 70, 0>>, <<60, 4, 40, -4, 100, 0, 100, 0, 100, 0, 70, 0, 100, 0>>, <<60, 4, 40, -4, 100, 0, 100, 0, 80, 0, 100, 0, 100, 0>>,
      <<60, 4, 40, -4, 100, 0, 80, 0, 100, 0, 100, 0, 100, 0>>, <<60, 4, 40, -4, 80, 0, 100, 0, 100, 0, 100, 0, 100, 0>>, <<50, -2, 100, 0, 100, 0, 100, 0, 80, 0, 60, 0, 70, 0>>,
      <<50, -2, 100, 0, 100, 0, 100, 0, 60, 0, 60, 0, 100, 0>>, <<50, -2, 100, 0, 100, 0, 80, 0, 100, 0, 60, 0, 70, 0>>, <<50, -2, 100, 0, 100, 0, 80, 0, 80, 0, 60, 0, 100, 0>>,
      <<50, -2, 100, 0, 100, 0, 60, 4, 100, 0, 60, 0, 100, 0>>, <<50, -2, 100, 0, 80, 0, 100, 0, 100, 0, 60, 0, 70, 0>>, <<50, -2, 100, 0, 80, 0, 100, 0, 80, 0, 60, 0, 100, 0>>,
      <<50, -2, 100, 0, 80, 0, 80, 0, 100, 0, 60, 0, 100, 0>>, <<50, -2, 100, 0, 60, 4, 100, 0, 100, 0, 60, 0, 100, 0>>, <<50, -2, 100, 0, 60, 0, 100, 0, 100, 0, 60, 0, 100, 0>>,
      <<50, -2, 80, 0, 100, 0, 100, 0, 100, 0, 60, 0, 70, 0>>, <<50, -2, 80, 0, 100, 0, 100, 0, 80, 0, 60, 0, 100, 0>>, <<50, -2, 80, 0, 100, 0, 80, 0, 100, 0, 60, 0, 100, 0>>,
      <<50, -2, 80, 0, 80, 0, 100, 0, 100, 0, 60, 0, 100, 0>>, <<50, -2, 60, 4, 100, 0, 100, 0, 100, 0, 60, 0, 100, 0>>, <<50, -2, 60, 0, 100, 0, 100, 0, 100, 0, 60, 0, 100, 0>>,
      <<30, -2, 100, 0, 100, 0, 100, 0, 100, 0, 70, 0, 70, 0>>, <<30, -2, 100, 0, 100, 0, 100, 0, 80, 0, 100, 0, 70, 0>>, <<30, -2, 100, 0, 100, 0, 100, 0, 80, 0, 70, 0, 100, 0>>,
      <<30, -2, 100, 0, 100, 0, 100, 0, 60, 0, 100, 0, 100, 0>>, <<30, -2, 100, 0, 100, 0, 80, 0, 100, 0, 100, 0, 70, 0>>, <<30, -2, 100, 0, 100, 0, 80, 0, 100, 0, 70, 0, 100, 0>>,
      <<30, -2, 100, 0, 100, 0, 80, 0, 80, 0, 100, 0, 100, 0>>, <<30, -2, 100, 0, 100, 0, 60, 4, 100, 0, 100, 0, 100, 0>>, <<30, -2, 100, 0, 80, 0, 100, 0, 100, 0, 100, 0, 70, 0>>,
      <<30, -2, 100, 0, 80, 0, 100, 0, 100, 0, 70, 0, 100, 0>>, <<30, -2, 100, 0, 80, 0, 100, 0, 80, 0, 100, 0, 100, 0>>, <<30, -2, 100, 0, 80, 0, 80, 0, 100, 0, 100, 0, 100, 0>>,
      <<30, -2, 100, 0, 60, 4, 100, 0, 100, 0, 100, 0, 100, 0>>, <<30, -2, 100, 0, 60, 0, 100, 0, 100, 0, 100, 0, 100, 0>>, <<30, -2, 80, 0, 100, 0, 100, 0, 100, 0, 100, 0, 70, 0>>,
      <<30, -2, 80, 0, 100, 0, 100, 0, 100, 0, 70, 0, 100, 0>>, <<30, -2, 80, 0, 100, 0, 100, 0, 80, 0, 100, 0, 100, 0>>, <<30, -2, 80, 0, 100, 0, 80, 0, 100, 0, 100, 0, 100, 0>>,
      <<30, -2, 80, 0, 80, 0, 100, 0, 100, 0, 100, 0, 100, 0>>, <<30, -2, 60, 4, 100, 0, 100, 0, 100, 0, 100, 0, 100, 0>>, <<30, -2, 60, 0, 100, 0, 100, 0, 100, 0, 100, 0, 100, 0>>,
      <<20, 2, 100, 0, 100, 0, 100, 0, 100, 0, 60, 0, 100, 0>> }

\* totalScore / totalWeight.  n is the weighted mean of the nearest hundredths,
\* in ten-thousandths, and the double is less than 10^-15 away from it; e is
\* -1 when the double is below passingScore though n is not, else 0
calculateOverallScore(results) ==
    LET n == IF totalWeight(results) > 0
                THEN (SumSeq([i \in 1..Len(results) |->
                                 results[i].score.h * results[i].weight]) * 100)
                     \div totalWeight(results)
                ELSE 0
    IN  [ n |-> n,
          e |-> IF /\ n = passingScore * 100
                   /\ Flatten([i \in 1..Len(results) |->
                                  <<results[i].score.h, results[i].score.e>>])
                          \in RoundsBelowPassing
                    THEN -1 ELSE 0 ]

\* results.overall.score >= this.passingScore
overallPasses(score) ==
    score.n > passingScore * 100 \/ (score.n = passingScore * 100 /\ score.e >= 0)

generateRecommendations(results) ==
    LET failed == SelectSeq(results, LAMBDA result : ~result.passed)
    IN  [ i \in 1..Len(failed) |->
            failed[i].gate \o ": "
            \o (IF failed[i].recommendations = <<>> THEN "Needs improvement"
                ELSE joinComma(failed[i].recommendations)) ]

\* a faulty variant: the score is rounded to hundredths before it is compared
identifyBlockersRounded(results) ==
    LET blocking == SelectSeq(results, LAMBDA result : result.score.h < 50)
    IN  [ i \in 1..Len(blocking) |->
            [gate |-> blocking[i].gate, issues |-> blocking[i].issues,
             severity |-> "critical"] ]

identifyBlockers(results) ==
    LET blocking == SelectSeq(results, LAMBDA result : lessThan(result.score, 50))
    IN  [ i \in 1..Len(blocking) |->
            [gate |-> blocking[i].gate, issues |-> blocking[i].issues,
             severity |-> "critical"] ]

\* results.gates[gate.name] = { ...gateResult, weight: gate.weight }
gateEntry(gate, gateResult) ==
    [ gate |-> gate.name, passed |-> gateResult.passed, score |-> gateResult.score,
      issues |-> gateResult.issues, recommendations |-> gateResult.recommendations,
      weight |-> gate.weight ]

\* what validate returns once every gate has run
summarize(results) ==
    [ overall |-> [ passed |-> overallPasses(calculateOverallScore(results)),
                    score |-> calculateOverallScore(results) ],
      gates |-> results,
      recommendations |-> generateRecommendations(results),
      blockers |-> identifyBlockers(results) ]

\* QualityGates.validate; gates lists the results in the order of the keys
validate(workflow) ==
    summarize([ i \in 1..Len(gates) |->
                  gateEntry(gates[i], runGate(gates[i].name, workflow)) ])

(***************************************************************************)
(* OutputFormatter.  Of the text a formatter returns the model keeps the   *)
(* heading lines, those that start with '#', in the order they are written. *)
(***************************************************************************)
\* str.charAt(0).toUpperCase() + str.slice(1), over the task types
capitalizeFirst(str) ==
    CASE str = Undefined -> ""
      [] str = "analysis" -> "Analysis"
      [] str = "deploy" -> "Deploy"
      [] str = "design" -> "Design"
      [] str = "implement" -> "Implement"
      [] str = "monitor" -> "Monitor"
      [] str = "optimize" -> "Optimize"
      [] str = "planning" -> "Planning"
      [] str = "research" -> "Research"
      [] str = "setup" -> "Setup"
      [] str = "test" -> "Test"
      [] str = "user-story" -> "User-story"
      [] str = "validate" -> "Validate"
      [] OTHER -> str

\* workflow.overview is set by no operation, so no Overview section is written
generateHeader(workflow, subtitle) ==
    << "# " \o (IF workflow.title = "" THEN "Implementation Workflow" ELSE workflow.title),
       "## " \o subtitle >>

\* metadata and mcpRecommendations are on every workflow a persona returns
formatRoadmap(workflow) ==
    generateHeader(workflow, "Roadmap")
    \o [ i \in 1..Len(workflow.phases) |->
            "## Phase " \o ToStr(i) \o ": " \o workflow.phases[i].name
            \o (IF workflow.phases[i].duration # Undefined
                    THEN " (" \o workflow.phases[i].duration \o ")" ELSE "") ]
    \o << "## Project Metadata", "## MCP Server Recommendations" >>

\* Object.entries(groupTasksByType(tasks)): the types in order of first use
groupTasksByType(tasks) ==
    SetAddAll(<<>>, [j \in 1..Len(tasks) |-> tasks[j].type])

formatTasks(workflow) ==
    generateHeader(workflow, "Tasks")
    \o Flatten([ i \in 1..Len(workflow.phases) |->
            << "## Epic: " \o workflow.phases[i].name >>
            \o LET types == groupTasksByType(workflow.phases[i].tasks)
               IN  [k \in 1..Len(types) |-> "### Story: " \o capitalizeFirst(types[k])] ])

FormatFailed(message) == [ok |-> FALSE, message |-> message, output |-> <<>>]
Formatted(output) == [ok |-> TRUE, message |-> NoError, output |-> output]

\* formatDependencies and formatRisks call forEach on what enhanceWorkflow
\* attached, and that is an object, not an array
formatDetailed(workflow) ==
    LET body ==
            generateHeader(workflow, "Detailed Implementation Workflow")
            \o Flatten([ i \in 1..Len(workflow.phases) |->
                    << "## Phase " \o ToStr(i) \o ": " \o workflow.phases[i].name >>
                    \o Flatten([ j \in 1..Len(workflow.phases[i].tasks) |->
                            << "### Task " \o ToStr(i) \o "." \o ToStr(j) \o ": "
                               \o workflow.phases[i].tasks[j].title >>
                            \o (IF workflow.phases[i].tasks[j].deliverables # <<>>
                                    THEN << "#### Deliverables:" >> ELSE <<>>) ]) ])
            \o << "## Quality Gates", "## Best Practices" >>
    IN  IF "dependencies" \in workflow.attached
            THEN FormatFailed("dependencies.forEach is not a function")
        ELSE IF "risks" \in workflow.attached
            THEN FormatFailed("risks.forEach is not a function")
        ELSE Formatted(body)

\* OutputFormatter.format
format(workflow, fmt) ==
    CASE fmt = "roadmap" -> Formatted(formatRoadmap(workflow))
      [] fmt = "tasks" -> Formatted(formatTasks(workflow))
      [] fmt = "detailed" -> formatDetailed(workflow)
      [] OTHER -> FormatFailed("Unknown output format: " \o fmt)

(***************************************************************************)
(* WorkflowGenerator.generateWorkflow as a state machine.  pc is the       *)
(* position inside the call: each await of the method is one step.         *)
(***************************************************************************)
DefaultOptions ==
    [ strategy |-> "systematic", output |-> "roadmap", persona |-> "auto",
      enableMCP |-> TRUE, includeEstimates |-> FALSE, includeDependencies |-> FALSE,
      includeRisks |-> FALSE, enableParallel |-> FALSE, includeMilestones |-> FALSE ]

NoRequirements == [none |-> TRUE]
NoAnalysis == [none |-> TRUE]
NoValidation == [none |-> TRUE]
NoGenerator == [none |-> TRUE]
NoExtraction == [none |-> TRUE]

\* a catch block that drops the message of the error it caught
RethrownBare(message) == "Workflow generation failed"

\* catch (error) { throw new Error(`Workflow generation failed: ${error.message}`) }
Rethrown(message) == "Workflow generation failed: " \o message

\* const requirements = await this.parseInput(input)
ParseInput ==
    /\ pc = "start"
    /\ \E result \in {parseInput(input)} :
           IF result.ok
               THEN /\ requirements' = result.requirements
                    /\ pc' = "parsed"
                    /\ error' = error
               ELSE /\ requirements' = requirements
                    /\ pc' = "failed"
                    /\ error' = Rethrown(result.message)
    /\ UNCHANGED <<input, options, analysis, persona, baseWorkflow, enhancedWorkflow, formattedOutput,
                   validation>>
    /\ UNCHANGED <<generator, invocations, extraction>>

\* const analysis = await this.analyzeRequirements(requirements, options)
AnalyzeRequirements ==
    /\ pc = "parsed"
    /\ analysis' = analyzeRequirements(requirements, options)
    /\ pc' = "analyzed"
    /\ UNCHANGED <<input, options, requirements, persona, baseWorkflow, enhancedWorkflow, error, formattedOutput,
                   validation>>
    /\ UNCHANGED <<generator, invocations, extraction>>

\* const persona = this.selectPersona(analysis, options)
SelectPersona ==
    /\ pc = "analyzed"
    /\ \E result \in {selectPersona(analysis, options)} :
           IF result.ok
               THEN /\ persona' = result.type
                    /\ pc' = "selected"
                    /\ error' = error
               ELSE /\ persona' = persona
                    /\ pc' = "failed"
                    /\ error' = Rethrown(result.message)
    /\ UNCHANGED <<input, options, requirements, analysis, baseWorkflow, enhancedWorkflow, formattedOutput,
                   validation>>
    /\ UNCHANGED <<generator, invocations, extraction>>

\* const baseWorkflow = await persona.generateWorkflow(requirements, options)
PersonaGenerateWorkflow ==
    /\ pc = "selected"
    /\ \E result \in {generateWorkflow(persona, requirements, options)} :
           IF result.ok
               THEN /\ baseWorkflow' = result.workflow
                    /\ pc' = "synthesized"
                    /\ error' = error
               ELSE /\ baseWorkflow' = baseWorkflow
                    /\ pc' = "failed"
                    /\ error' = Rethrown(result.message)
    /\ UNCHANGED <<input, options, requirements, analysis, persona, enhancedWorkflow, formattedOutput,
                   validation>>
    /\ UNCHANGED <<generator, invocations, extraction>>

\* const enhancedWorkflow = await this.enhanceWorkflow(baseWorkflow, options)
EnhanceWorkflow ==
    /\ pc = "synthesized"
    /\ enhancedWorkflow' = enhanceWorkflow(baseWorkflow, options)
    /\ pc' = "enhanced"
    /\ UNCHANGED <<input, options, requirements, analysis, persona, baseWorkflow, error, formattedOutput,
                   validation>>
    /\ UNCHANGED <<generator, invocations, extraction>>

\* const formattedOutput = this.outputFormatter.format(validatedWorkflow, options.output)
FormatOutput ==
    /\ pc = "enhanced"
    /\ \E result \in {format(enhancedWorkflow, options.output)} :
           IF result.ok
               THEN /\ formattedOutput' = result.output
                    /\ pc' = "done"
                    /\ error' = error
               ELSE /\ formattedOutput' = formattedOutput
                    /\ pc' = "failed"
                    /\ error' = Rethrown(result.message)
    /\ UNCHANGED <<input, options, requirements, analysis, persona, baseWorkflow,
                   enhancedWorkflow, validation>>
    /\ UNCHANGED <<generator, invocations, extraction>>

(***************************************************************************)
(* The whole call, on the inputs of the catalog and a choice of flags      *)
(***************************************************************************)
OutputFormats == {"roadmap", "tasks", "detailed", "html"}

\* --strategy <type> takes any string; "waterfall" is one the switch has no case for
StrategyChoices == Strategies \cup {"waterfall"}

FlagChoices ==
    { [DefaultOptions EXCEPT !.strategy = s, !.persona = p, !.output = o,
                             !.includeDependencies = d, !.includeRisks = d,
                             !.includeEstimates = e, !.enableParallel = e,
                             !.includeMilestones = e] :
        s \in StrategyChoices, p \in {"auto", "qa", "Frontend", "fullstack"},
        o \in OutputFormats, d \in BOOLEAN, e \in BOOLEAN }

Init ==
    /\ pc = "start"
    /\ input \in Descriptions \cup Paths
    /\ options \in FlagChoices
    /\ requirements = NoRequirements
    /\ analysis = NoAnalysis
    /\ persona = Undefined
    /\ baseWorkflow = NoWorkflow
    /\ enhancedWorkflow = NoWorkflow
    /\ error = NoError
    /\ formattedOutput = <<>>
    /\ validation = NoValidation
    /\ generator = NoGenerator
    /\ invocations = <<>>
    /\ extraction = NoExtraction

Next ==
    \/ ParseInput
    \/ AnalyzeRequirements
    \/ SelectPersona
    \/ PersonaGenerateWorkflow
    \/ EnhanceWorkflow
    \/ FormatOutput

Spec == Init /\ [][Next]_vars

(***************************************************************************)
(* Properties of the whole call                                            *)
(***************************************************************************)
\* the call stopped inside parseInput: no requirements object was returned
ExtractionRaised == pc = "failed" /\ requirements = NoRequirements

\* the input is handed to parseFile and names a file that can be read as a
\* markdown or a text document
ReadableDocument(in) ==
    /\ inputIncludes(in, ".md") \/ inputIncludes(in, ".txt") \/ inputIncludes(in, "/")
    /\ FileExists(in)
    /\ detectFileType(in) \in {"markdown", "text"}

\* C2: extraction never raises: for a markdown document and for a free-form
\* description alike, whatever the text, parsing returns a requirements
\* object (the only inputs that may stop it are a file that is not there and
\* a file of an unsupported type)
C2_ExtractionNeverRaises ==
    ExtractionRaised =>
        /\ inputIncludes(input, ".md") \/ inputIncludes(input, ".txt")
           \/ inputIncludes(input, "/")
        /\ ~ReadableDocument(input)

\* an enhanced workflow without phases
ZeroPhaseEnhanced ==
    /\ pc \in {"enhanced", "done", "failed"}
    /\ enhancedWorkflow # NoWorkflow
    /\ enhancedWorkflow.phases = <<>>

\* every list of the dependency attachment is empty
DependencyListsEmpty(dependencies) ==
    /\ dependencies.internal = <<>>
    /\ dependencies.external = <<>>
    /\ dependencies.technical = <<>>
    /\ dependencies.team = <<>>
    /\ dependencies.infrastructure = <<>>
    /\ dependencies.criticalPath = <<>>
    /\ dependencies.bottlenecks = <<>>

\* every list of the risk attachment is empty and its summary counts nothing
RiskListsEmpty(risks) ==
    /\ \A c \in Range(riskCategories) : risks[c] = <<>>
    /\ risks.summary.total = 0
    /\ risks.summary.topRisks = <<>>

RiskNames(list) == {list[i].name : i \in 1..Len(list)}

Enhanced == pc \in {"enhanced", "done", "failed"} /\ enhancedWorkflow # NoWorkflow

\* the fields of a task the persona wrote are the same in both; a task the
\* persona gave no estimatedHours (0 here) has no such field to compare
SameTaskFields(before, after) ==
    /\ [after EXCEPT !.estimatedHours = 0] = [before EXCEPT !.estimatedHours = 0]
    /\ before.estimatedHours # 0 => after.estimatedHours = before.estimatedHours

\* the fields of a phase the persona wrote are the same in both
SamePhaseFields(before, after) ==
    /\ after.name = before.name
    /\ after.type = before.type
    /\ after.duration = before.duration
    /\ Len(after.tasks) = Len(before.tasks)
    /\ \A j \in 1..Len(before.tasks) : SameTaskFields(before.tasks[j], after.tasks[j])

\* C11: enrichment only attaches keys: title, strategy, persona, metadata and
\* every phase and task field the persona wrote, estimatedHours included, are
\* in the enhanced workflow what they are in the persona's workflow
C11_EnrichmentKeepsSharedFields ==
    Enhanced =>
        /\ enhancedWorkflow.title = baseWorkflow.title
        /\ enhancedWorkflow.strategy = baseWorkflow.strategy
        /\ enhancedWorkflow.persona = baseWorkflow.persona
        /\ enhancedWorkflow.metadata = baseWorkflow.metadata
        /\ Len(enhancedWorkflow.phases) = Len(baseWorkflow.phases)
        /\ \A i \in 1..Len(baseWorkflow.phases) :
              SamePhaseFields(baseWorkflow.phases[i], enhancedWorkflow.phases[i])

\* C19: with no persona override, the dashboard text gives domains with
\* frontend, patterns with ui-component and responsive, and the persona
\* frontend; the REST API text gives patterns with api, database and
\* authentication, and the persona backend
C19_DocumentedScenarios ==
    (pc = "selected" /\ options.persona = "auto") =>
        /\ input = "Build a responsive admin dashboard with React components, charts, and mobile-friendly design"
               => /\ "frontend" \in requirements.domains
                  /\ {"ui-component", "responsive"} \subseteq requirements.patterns
                  /\ persona = "frontend"
        /\ input = "Implement REST API with authentication and PostgreSQL database integration"
               => /\ {"api", "database", "authentication"} \subseteq requirements.patterns
                  /\ persona = "backend"

\* the input names a document of the file system whose extension is none of
\* md, markdown, txt
NamesUnsupportedDocument(in) ==
    FileExists(in) /\ extension(in) \notin {"md", "markdown", "txt"}

\* C20: an input that names a document with an unrecognised extension is
\* rejected with the unsupported-format error, and no workflow is made for it
C20_UnsupportedRejected ==
    (NamesUnsupportedDocument(input) /\ pc # "start") =>
        /\ pc = "failed"
        /\ error = Rethrown("Failed to parse PRD file: Unsupported file type: unknown")
        /\ baseWorkflow = NoWorkflow
        /\ formattedOutput = <<>>

(***************************************************************************)
(* Synthesis on its own: a persona of each type is handed requirements     *)
(* objects with every feature list up to MaxFeatures over FeatureKinds.    *)
(***************************************************************************)
\* the third kind is the shape the description parser gives every feature
FeatureKinds ==
    { Feature("login", "high", "high"),
      Feature("payment api", "critical", "low"),
      Feature("dashboard", "medium", Undefined) }

FeatureLists == UNION {[1..n -> FeatureKinds] : n \in 0..MaxFeatures}

SynthRequirements ==
    { [EmptyRequirements EXCEPT !.features = fs,
                                !.integrations = IF rich THEN <<"Stripe">> ELSE <<>>,
                                !.components = IF rich THEN <<"Table", "button", "card">>
                                               ELSE <<>>] :
        fs \in FeatureLists, rich \in BOOLEAN }

InitSynth ==
    /\ pc = "selected"
    /\ input = Undefined
    /\ options \in {[DefaultOptions EXCEPT !.strategy = s] : s \in Strategies}
    /\ requirements \in SynthRequirements
    /\ analysis = analyzeRequirements(requirements, options)
    /\ persona \in PersonaTypes
    /\ baseWorkflow = NoWorkflow
    /\ enhancedWorkflow = NoWorkflow
    /\ error = NoError
    /\ formattedOutput = <<>>
    /\ validation = NoValidation
    /\ generator = NoGenerator
    /\ invocations = <<>>
    /\ extraction = NoExtraction

NextSynth == PersonaGenerateWorkflow

SpecSynth == InitSynth /\ [][NextSynth]_vars

(***************************************************************************)
(* Properties of synthesis                                                 *)
(***************************************************************************)
Synthesized(strategy) == pc = "synthesized" /\ options.strategy = strategy

\* the stories of the features, in feature order
StoriesOf(features) ==
    [i \in 1..Len(features) |->
        [title |-> "User can " \o features[i].name,
         storyPoints |-> CASE features[i].complexity = "high" -> 8
                           [] features[i].complexity = "medium" -> 5
                           [] features[i].complexity = "low" -> 3
                           [] OTHER -> 5]]

\* the stories of each sprint phase of a workflow, as title and points
SprintStories(phases) ==
    [i \in 1..Len(phases) |->
        [j \in 1..Len(phases[i].tasks) |->
            [title |-> phases[i].tasks[j].title,
             storyPoints |-> phases[i].tasks[j].storyPoints]]]

SprintPoints(stories) == SumSeq([j \in 1..Len(stories) |-> stories[j].storyPoints])

\* C1: for every persona type and every strategy, persona.generateWorkflow
\* returns a workflow and never throws
C1_SynthesisNeverFails == pc # "failed"

\* C6: every phase of a synthesized workflow has at least one task
C6_NoEmptyTaskPhase ==
    pc = "synthesized" =>
        \A i \in 1..Len(baseWorkflow.phases) : Len(baseWorkflow.phases[i].tasks) > 0

\* C7 as stated: the sprints of an agile workflow are the first-fit packing of
\* the stories, each story going to the earliest sprint that can hold it
C7_FirstFitPacking ==
    Synthesized("agile") =>
        LET packed == firstFitStories(StoriesOf(requirements.features), <<>>)
        IN  SprintStories(baseWorkflow.phases)
                = [i \in 1..Len(packed) |-> packed[i].userStories]

\* C7 as amended: the sprints are the next-fit packing of the stories.  Read
\* in order the sprints give the stories in feature order; no sprint is
\* empty or over 20 points; and a sprint is opened exactly when the story
\* that starts it does not fit into the sprint before it, earlier sprints
\* never being reopened
C7_NextFitPacking ==
    Synthesized("agile") =>
        LET sprints == SprintStories(baseWorkflow.phases)
        IN  /\ Flatten(sprints) = StoriesOf(requirements.features)
            /\ \A k \in 1..Len(sprints) :
                  /\ sprints[k] # <<>>
                  /\ SprintPoints(sprints[k]) <= 20
                  /\ k > 1 => SprintPoints(sprints[k - 1]) + sprints[k][1].storyPoints > 20

\* an agile workflow in which a story opened a sprint although an earlier
\* sprint still had room for it
C7_Witness ==
    /\ Synthesized("agile")
    /\ LET sprints == SprintStories(baseWorkflow.phases)
       IN  \E k \in 1..Len(sprints) : \E e \in 1..(k - 1) : \E j \in 1..Len(sprints[k]) :
               SprintPoints(sprints[e]) + sprints[k][j].storyPoints <= 20

\* C8: in an agile workflow every sprint has between 1 story and 20 points,
\* there is one story per feature, and the sprints read in order list the
\* features' stories in feature order
C8_SprintInvariants ==
    Synthesized("agile") =>
        LET phases == baseWorkflow.phases
            features == requirements.features
            titles == Flatten([i \in 1..Len(phases) |->
                          [j \in 1..Len(phases[i].tasks) |-> phases[i].tasks[j].title]])
        IN  /\ \A i \in 1..Len(phases) :
                  /\ Len(phases[i].tasks) >= 1
                  /\ SumSeq([j \in 1..Len(phases[i].tasks) |->
                                phases[i].tasks[j].storyPoints]) <= 20
            /\ Len(titles) = Len(features)
            /\ \A n \in 1..Len(features) : titles[n] = "User can " \o features[n].name

\* an agile workflow of at least three sprints
C8_Witness ==
    /\ Synthesized("agile")
    /\ Len(baseWorkflow.phases) >= 3

IsCore(feature) == feature.priority \in {"high", "critical"}

\* the positions of the features of priority high or critical
CorePositions(features) == {i \in 1..Len(features) : IsCore(features[i])}

\* C9: an mvp workflow has the three phases definition, build, validation in
\* this order, and the tasks of the build phase are the first at most five
\* features of priority high or critical, in feature order
C9_MvpThreePhases ==
    Synthesized("mvp") =>
        LET phases == baseWorkflow.phases
            features == requirements.features
            core == CorePositions(features)
            \* position of the j-th core feature
            nth(j) == CHOOSE i \in core : Cardinality({k \in core : k <= i}) = j
        IN  /\ Len(phases) = 3
            /\ <<phases[1].name, phases[2].name, phases[3].name>>
                   = <<"MVP Definition", "Rapid Development", "MVP Validation">>
            /\ <<phases[1].type, phases[2].type, phases[3].type>>
                   = <<"planning", "implementation", "validation">>
            /\ Len(phases[2].tasks) = Min(5, Cardinality(core))
            /\ \A j \in 1..Len(phases[2].tasks) :
                   phases[2].tasks[j].title = "Implement " \o features[nth(j)].name

\* an mvp workflow from more than five core features, cut to five tasks
C9_Witness ==
    /\ Synthesized("mvp")
    /\ Cardinality(CorePositions(requirements.features)) > 5
    /\ Len(baseWorkflow.phases[2].tasks) = 5

(***************************************************************************)
(* Scoring on its own: requirements objects whose collections have 0, 1 or *)
(* about as many items as calculateComplexity counts at most.              *)
(***************************************************************************)
LengthsNear(cap) == {0, 1} \cup cap..(cap + MaxOver)

ScoreRequirements ==
    { [EmptyRequirements EXCEPT
          !.components = Items("component", c),
          !.integrations = Items("integration", i),
          !.userRoles = Items("role", u),
          !.features = [n \in 1..f |-> Feature("feature" \o ToStr(n), "medium", Undefined)],
          !.pages = Items("page", p),
          !.realtime = rt, !.security = se, !.performance = pe, !.scalability = sc] :
        c \in LengthsNear(10), i \in LengthsNear(5), u \in LengthsNear(5),
        f \in LengthsNear(20), p \in LengthsNear(15),
        rt \in BOOLEAN, se \in {Undefined, "high"}, pe \in {Undefined, "critical"},
        sc \in {Undefined, "enterprise"} }

InitScore ==
    /\ pc = "parsed"
    /\ input = Undefined
    /\ options = DefaultOptions
    /\ requirements \in ScoreRequirements
    /\ analysis = NoAnalysis
    /\ persona = Undefined
    /\ baseWorkflow = NoWorkflow
    /\ enhancedWorkflow = NoWorkflow
    /\ error = NoError
    /\ formattedOutput = <<>>
    /\ validation = NoValidation
    /\ generator = NoGenerator
    /\ invocations = <<>>
    /\ extraction = NoExtraction

NextScore == AnalyzeRequirements

SpecScore == InitScore /\ [][NextScore]_vars

\* the requirements with one more of one contributing signal
OneMoreSignal(r) ==
    { [r EXCEPT !.components = Append(@, "more")],
      [r EXCEPT !.integrations = Append(@, "more")],
      [r EXCEPT !.userRoles = Append(@, "more")],
      [r EXCEPT !.features = Append(@, Feature("more", "medium", Undefined))],
      [r EXCEPT !.pages = Append(@, "more")],
      [r EXCEPT !.realtime = TRUE],
      [r EXCEPT !.security = "high"],
      [r EXCEPT !.performance = "critical"],
      [r EXCEPT !.scalability = "enterprise"] }

\* C5: the complexity of an analysis lies in [0,1] (0..100 hundredths), and
\* one more component, integration, user role, feature or page, or a
\* modifier switched on, gives a complexity that is not lower
C5_ComplexityRangeMonotone ==
    pc = "analyzed" =>
        /\ analysis.complexity >= 0
        /\ analysis.complexity <= 100
        /\ \A r2 \in OneMoreSignal(requirements) :
               analyzeRequirements(r2, options).complexity >= analysis.complexity

\* an analysis whose factors and modifiers add up to more than 1
C5_Witness ==
    /\ pc = "analyzed"
    /\ analysis.complexity = 100
    /\ Len(requirements.features) > 20
    /\ requirements.realtime

\* C16: the risk level of an analysis is computed from four indicators,
\* complexity above 0.7 (+2), more than 3 integrations (+2), high security
\* (+1), more than 10 features (+1): a total of 4 or more is high, of 2 or
\* more medium, anything else low
C16_RiskLevelRule ==
    pc = "analyzed" =>
        LET total == (IF requirements.complexity > 7000 THEN 2 ELSE 0)
                     + (IF Len(requirements.integrations) > 3 THEN 2 ELSE 0)
                     + (IF requirements.security = "high" THEN 1 ELSE 0)
                     + (IF Len(requirements.features) > 10 THEN 1 ELSE 0)
        IN  analysis.riskLevel = IF total >= 4 THEN "high"
                                 ELSE IF total >= 2 THEN "medium"
                                 ELSE "low"

\* the weeks a duration of estimateProjectDuration stands for: "3 weeks" is 3,
\* "2 months" is 8
weeksOf(duration) ==
    LET weeks == {n \in 0..60 : duration = ToStr(n) \o " weeks"}
        months == {n \in 0..60 : duration \in {ToStr(n) \o " month", ToStr(n) \o " months"}}
    IN  IF weeks # {} THEN CHOOSE n \in weeks : TRUE
        ELSE 4 * (CHOOSE n \in months : TRUE)

\* the requirements with one more signal, or with a higher complexity estimate
Larger(r) ==
    OneMoreSignal(r)
    \cup {[r EXCEPT !.complexity = c] : c \in {c \in {1000, 5000, 10000} : c > r.complexity}}

NoSignal(r) ==
    /\ Len(r.features) = 0 /\ Len(r.integrations) = 0 /\ Len(r.components) = 0
    /\ Len(r.userRoles) = 0 /\ Len(r.pages) = 0
    /\ ~r.realtime
    /\ r.security = Undefined /\ r.performance = Undefined /\ r.scalability = Undefined
    /\ r.timeline = Undefined /\ r.team = Undefined
    /\ r.complexity = 0

\* C18: requirements with no features, no integrations, no realtime
\* requirement and no other signal are scored complexity 0, risk level low
\* and a duration of 2 weeks
C18_NoSignalScore ==
    (pc = "analyzed" /\ NoSignal(requirements)) =>
        /\ analysis.complexity = 0
        /\ analysis.riskLevel = "low"
        /\ analysis.estimatedDuration = 2

\* the analysis of requirements without a signal
C18_Witness ==
    /\ pc = "analyzed"
    /\ NoSignal(requirements)
    /\ analysis # NoAnalysis
    /\ analysis.estimatedDuration = estimateDuration(requirements)

(***************************************************************************)
(* Selection on its own: every set of the domains and patterns that        *)
(* autoDetectPersona looks at, and a catalog of --persona values.          *)
(***************************************************************************)
SelectDomains == {"frontend", "backend", "security", "infrastructure"}
SelectPatterns == {"ui-component", "responsive", "api", "database", "authentication",
                   "encryption", "deployment", "ci-cd"}
Overrides == {"auto", "architect", "frontend", "qa", "Frontend", "QA", "AUTO",
              "fullstack"}

InitSelect ==
    /\ pc = "analyzed"
    /\ input = Undefined
    /\ options \in {[DefaultOptions EXCEPT !.persona = o] : o \in Overrides}
    /\ requirements \in { [EmptyRequirements EXCEPT !.domains = d, !.patterns = p] :
                            d \in SUBSET SelectDomains, p \in SUBSET SelectPatterns }
    /\ analysis = analyzeRequirements(requirements, options)
    /\ persona = Undefined
    /\ baseWorkflow = NoWorkflow
    /\ enhancedWorkflow = NoWorkflow
    /\ error = NoError
    /\ formattedOutput = <<>>
    /\ validation = NoValidation
    /\ generator = NoGenerator
    /\ invocations = <<>>
    /\ extraction = NoExtraction

NextSelect == SelectPersona

SpecSelect == InitSelect /\ [][NextSelect]_vars

FrontendIndicators(a) ==
    "frontend" \in a.domains \/ {"ui-component", "responsive"} \cap a.patterns # {}
BackendIndicators(a) ==
    "backend" \in a.domains \/ {"api", "database"} \cap a.patterns # {}
SecurityIndicators(a) ==
    "security" \in a.domains \/ {"authentication", "encryption"} \cap a.patterns # {}
InfrastructureIndicators(a) ==
    "infrastructure" \in a.domains \/ {"deployment", "ci-cd"} \cap a.patterns # {}

\* C3: with no override the persona selected is frontend on frontend
\* indicators, else backend on backend indicators, else security, else
\* devops on infrastructure indicators, else architect
C3_PrecedenceChain ==
    (pc = "selected" /\ options.persona = "auto") =>
        /\ persona \in {"frontend", "backend", "security", "devops", "architect"}
        /\ FrontendIndicators(analysis) => persona = "frontend"
        /\ (~FrontendIndicators(analysis) /\ BackendIndicators(analysis)) => persona = "backend"
        /\ (~FrontendIndicators(analysis) /\ ~BackendIndicators(analysis)
              /\ SecurityIndicators(analysis)) => persona = "security"
        /\ (~FrontendIndicators(analysis) /\ ~BackendIndicators(analysis)
              /\ ~SecurityIndicators(analysis) /\ InfrastructureIndicators(analysis))
              => persona = "devops"
        /\ (~FrontendIndicators(analysis) /\ ~BackendIndicators(analysis)
              /\ ~SecurityIndicators(analysis) /\ ~InfrastructureIndicators(analysis))
              => persona = "architect"

\* frontend selected although backend indicators are present too
C3_Witness ==
    /\ pc = "selected"
    /\ options.persona = "auto"
    /\ FrontendIndicators(analysis)
    /\ BackendIndicators(analysis)
    /\ persona = "frontend"

Recognised(name) == toLowerCase(name) \in PersonaTypes

\* C4 as stated: a recognised override is selected verbatim whatever the
\* analysis says, any other override fails the run with the unknown-type
\* error and no workflow, and the factory creates exactly the names hasType
\* accepts
C4_OverrideVerbatim ==
    (pc \in {"selected", "failed"} /\ options.persona # "auto") =>
        /\ Recognised(options.persona) => (pc = "selected" /\ persona = options.persona)
        /\ ~Recognised(options.persona) =>
              /\ pc = "failed"
              /\ error = "Workflow generation failed: Unknown persona type: " \o options.persona
              /\ baseWorkflow = NoWorkflow
        /\ \A name \in Overrides : create(name).ok <=> hasType(name)

\* C4 as amended: a recognised override selects the persona of that name in
\* lower case
C4_OverrideLowerCased ==
    (pc \in {"selected", "failed"} /\ options.persona # "auto") =>
        /\ Recognised(options.persona) =>
              (pc = "selected" /\ persona = toLowerCase(options.persona))
        /\ ~Recognised(options.persona) =>
              /\ pc = "failed"
              /\ error = "Workflow generation failed: Unknown persona type: " \o options.persona
              /\ baseWorkflow = NoWorkflow
        /\ \A name \in Overrides : create(name).ok <=> hasType(name)

\* an override in another case than the catalog's, selected against the
\* indicators of the analysis
C4_Witness ==
    /\ pc = "selected"
    /\ options.persona = "QA"
    /\ persona = "qa"
    /\ FrontendIndicators(analysis)

(***************************************************************************)
(* Validation on its own: QualityGates.validate on workflows the           *)
(* synthesizer made and enhanceWorkflow enriched, under every choice of    *)
(* the dependency and risk flags.  A caller of the validator may have      *)
(* given the workflow any title and a list of acceptance criteria.         *)
(***************************************************************************)
\* const validatedWorkflow = await this.qualityGates.validate(enhancedWorkflow):
\* the call generateWorkflow has commented out, made on its enriched workflow
ValidateWorkflow ==
    /\ pc = "enhanced"
    /\ validation = NoValidation
    /\ validation' = validate(enhancedWorkflow)
    /\ UNCHANGED <<pc, input, options, requirements, analysis, persona, baseWorkflow,
                   enhancedWorkflow, error, formattedOutput>>
    /\ UNCHANGED <<generator, invocations, extraction>>

\* a title that names what the gates look for
FullTitle ==
    "Scalability, monitoring, caching, encryption, auth, validation, load test, unit test, integration test, e2e test automation, API docs"

ValidateFlagChoices ==
    { [DefaultOptions EXCEPT !.strategy = s, !.includeDependencies = d,
                             !.includeRisks = r, !.includeEstimates = e,
                             !.enableParallel = e, !.includeMilestones = e] :
        s \in Strategies, d \in BOOLEAN, r \in BOOLEAN, e \in BOOLEAN }

ValidateRequirements ==
    { EmptyRequirements,
      [EmptyRequirements EXCEPT !.title = "Untitled Project",
                                !.features = <<Feature("login", "high", "low"),
                                               Feature("payment api", "medium", "high")>>],
      [EmptyRequirements EXCEPT !.features = <<Feature("dashboard", "low", "medium")>>,
                                !.integrations = <<"Stripe">>,
                                !.components = <<"Table", "button", "card">>] }

InitValidate ==
    /\ pc = "synthesized"
    /\ input = Undefined
    /\ options \in ValidateFlagChoices
    /\ requirements \in ValidateRequirements
    /\ analysis = analyzeRequirements(requirements, options)
    /\ persona \in PersonaTypes
    /\ \E result \in {generateWorkflow(persona, requirements, options)} :
           /\ result.ok
           /\ baseWorkflow \in
                  { [result.workflow EXCEPT !.title = t, !.acceptanceCriteria = ac] :
                      t \in {"", result.workflow.title, FullTitle},
                      ac \in {<<>>, <<"User can login">>} }
    /\ enhancedWorkflow = NoWorkflow
    /\ error = NoError
    /\ formattedOutput = <<>>
    /\ validation = NoValidation
    /\ generator = NoGenerator
    /\ invocations = <<>>
    /\ extraction = NoExtraction

NextValidate == EnhanceWorkflow \/ ValidateWorkflow

SpecValidate == InitValidate /\ [][NextValidate]_vars

(***************************************************************************)
(* Properties of the enrichment passes and of validation                   *)
(***************************************************************************)
Validated == pc = "enhanced" /\ validation # NoValidation

\* the workflow without what the passes named attached
detach(workflow, keys) == [workflow EXCEPT !.attached = @ \ keys]

\* the dependency analysis and the risk assessment of the enriched workflow,
\* each made with the other's result attached, are those of the synthesizer's
AnalysesIndependent ==
    /\ analyze(detach(enhancedWorkflow, {"dependencies"})) = analyze(baseWorkflow)
    /\ assess(detach(enhancedWorkflow, {"risks"})) = assess(baseWorkflow)

BlockingGates(results) ==
    LET blocking == SelectSeq(results, LAMBDA result : lessThan(result.score, 50))
    IN  [i \in 1..Len(blocking) |-> blocking[i].gate]

C14_ZeroPhasesFail ==
    (Validated /\ enhancedWorkflow.phases = <<>>) =>
        /\ ~validation.overall.passed
        /\ validation.gates[1].gate = "Requirements Validation"
        /\ validation.gates[1].score.h <= 70
        /\ validation.gates[1].score.h = 70 => validation.gates[1].score.e <= 0
        /\ "No implementation phases defined" \in Range(validation.gates[1].issues)

\* a workflow with no phases that has all a gate can find without phases: a
\* title, acceptance criteria, the keywords, both analyses
C14_Witness ==
    /\ Validated
    /\ enhancedWorkflow.phases = <<>>
    /\ enhancedWorkflow.title = FullTitle
    /\ enhancedWorkflow.acceptanceCriteria # <<>>
    /\ {"dependencies", "risks"} \subseteq enhancedWorkflow.attached
    /\ validation.gates[1].score = Double(70, 0)
    /\ validation.gates[7].score = Double(100, 0)

(***************************************************************************)
(* Several generateWorkflow calls on one generator.  A call runs from one  *)
(* await to the next without interruption; at an await any other call may  *)
(* run.  The awaits inside the persona and the analyzers touch nothing but *)
(* the call's own values, so a call is followed from one await of          *)
(* generateWorkflow to the next.                                           *)
(***************************************************************************)
MaxCalls == 2

\* { ...a, ...b }
spread(a, b) ==
    [ key \in DOMAIN a \cup DOMAIN b |-> IF key \in DOMAIN b THEN b[key] ELSE a[key] ]

\* new WorkflowGenerator(options): this.options = { defaults, ...options }; the
\* parser, factory, formatter and analyzers it builds keep no state between calls
WorkflowGenerator(constructorOptions) ==
    [ options |-> spread(DefaultOptions, constructorOptions) ]

\* a faulty variant: the merged options are kept on the generator
mergeFlagsKept(this, flags) ==
    [ options |-> spread(this.options, flags),
      this |-> [this EXCEPT !.options = spread(this.options, flags)] ]

\* const options = { ...this.options, ...flags }: the options of the call, and
\* the generator after the statement
mergeFlags(this, flags) ==
    [ options |-> spread(this.options, flags), this |-> this ]

\* the locals of a call that has run up to its first await
startCall(in, flags, callOptions) ==
    [ pc |-> "start", input |-> in, flags |-> flags, options |-> callOptions,
      requirements |-> NoRequirements, analysis |-> NoAnalysis, persona |-> Undefined,
      baseWorkflow |-> NoWorkflow, enhancedWorkflow |-> NoWorkflow,
      formattedOutput |-> <<>>, error |-> NoError ]

failCall(call, message) ==
    [call EXCEPT !.pc = "failed", !.error = Rethrown(message)]

afterParseInput(call, result) ==
    IF result.ok
        THEN [call EXCEPT !.pc = "parsed", !.requirements = result.requirements]
        ELSE failCall(call, result.message)

afterSelectPersona(call, result) ==
    IF result.ok
        THEN [call EXCEPT !.pc = "selected", !.persona = result.type]
        ELSE failCall(call, result.message)

afterPersonaGenerateWorkflow(call, result) ==
    IF result.ok
        THEN [call EXCEPT !.pc = "synthesized", !.baseWorkflow = result.workflow]
        ELSE failCall(call, result.message)

afterFormat(call, result) ==
    IF result.ok
        THEN [call EXCEPT !.pc = "done", !.formattedOutput = result.output]
        ELSE failCall(call, result.message)

\* the statements of generateWorkflow from the await the call waits at to the next
resume(call) ==
    CASE call.pc = "start" -> afterParseInput(call, parseInput(call.input))
      [] call.pc = "parsed" ->
             [call EXCEPT !.pc = "analyzed",
                          !.analysis = analyzeRequirements(call.requirements, call.options)]
      [] call.pc = "analyzed" ->
             afterSelectPersona(call, selectPersona(call.analysis, call.options))
      [] call.pc = "selected" ->
             afterPersonaGenerateWorkflow(
                 call, generateWorkflow(call.persona, call.requirements, call.options))
      [] call.pc = "synthesized" ->
             [call EXCEPT !.pc = "enhanced",
                          !.enhancedWorkflow = enhanceWorkflow(call.baseWorkflow, call.options)]
      [] call.pc = "enhanced" ->
             afterFormat(call, format(call.enhancedWorkflow, call.options.output))
      [] OTHER -> call

settled(call) == call.pc \in {"done", "failed"}

\* what the caller of generateWorkflow gets: the returned object or the error
resultOf(call) ==
    IF call.pc = "failed"
        THEN [ thrown |-> call.error ]
        ELSE [ workflow |-> call.formattedOutput,
               metadata |-> [ persona |-> call.persona,
                              strategy |-> call.options.strategy,
                              complexity |-> call.analysis.complexity,
                              estimatedDuration |-> call.analysis.estimatedDuration,
                              riskLevel |-> call.analysis.riskLevel ] ]

\* the arguments of the calls that are followed
ConcurrentInputs == {"Build a login form", "docs/prd.md"}

ConcurrentFlags ==
    { [enableMCP |-> TRUE],
      [strategy |-> "agile", output |-> "tasks"],
      [persona |-> "Frontend", includeRisks |-> TRUE] }

ConstructorOptions ==
    { [output |-> "roadmap"], [strategy |-> "mvp", includeDependencies |-> TRUE] }

\* generateWorkflow(input, flags) is called: it merges the flags and runs up to
\* its first await
StartCall ==
    /\ Len(invocations) < MaxCalls
    /\ \E in \in ConcurrentInputs, flags \in ConcurrentFlags :
           \E merged \in {mergeFlags(generator, flags)} :
               /\ generator' = merged.this
               /\ invocations' = Append(invocations, startCall(in, flags, merged.options))
    /\ UNCHANGED <<pc, input, options, requirements, analysis, persona, baseWorkflow,
                   enhancedWorkflow, error, formattedOutput, validation, extraction>>

\* the event loop resumes one of the waiting calls, which runs to its next await
ResumeCall ==
    /\ \E i \in 1..Len(invocations) :
           /\ ~settled(invocations[i])
           /\ invocations' = [invocations EXCEPT ![i] = resume(invocations[i])]
    /\ UNCHANGED <<pc, input, options, requirements, analysis, persona, baseWorkflow,
                   enhancedWorkflow, error, formattedOutput, validation, generator,
                   extraction>>

InitConcurrent ==
    /\ pc = "start"
    /\ input = ""
    /\ options = DefaultOptions
    /\ requirements = NoRequirements
    /\ analysis = NoAnalysis
    /\ persona = Undefined
    /\ baseWorkflow = NoWorkflow
    /\ enhancedWorkflow = NoWorkflow
    /\ error = NoError
    /\ formattedOutput = <<>>
    /\ validation = NoValidation
    /\ generator \in {WorkflowGenerator(constructorOptions) :
                          constructorOptions \in ConstructorOptions}
    /\ invocations = <<>>
    /\ extraction = NoExtraction

NextConcurrent == StartCall \/ ResumeCall

SpecConcurrent == InitConcurrent /\ [][NextConcurrent]_vars

\* the call run alone from start to end on a generator with the given options
RECURSIVE runAlone(_)
runAlone(call) == IF settled(call) THEN call ELSE runAlone(resume(call))

aloneResult(this, in, flags) ==
    resultOf(runAlone(startCall(in, flags, spread(this.options, flags))))

CallsIndependent ==
    \A i \in 1..Len(invocations) :
        settled(invocations[i]) =>
            /\ resultOf(invocations[i])
                   = aloneResult(generator, invocations[i].input, invocations[i].flags)
            /\ \A j \in 1..Len(invocations) :
                   ( /\ settled(invocations[j])
                     /\ invocations[j].input = invocations[i].input
                     /\ invocations[j].flags = invocations[i].flags )
                       => resultOf(invocations[j]) = resultOf(invocations[i])

\* C15: however the calls started on one generator interleave at their awaits,
\* the result of each finished call is the result of that call run alone on
\* the generator as constructed (it depends on the call's input, the
\* construction options and the call's flags only), calls with the same
\* arguments have the same result, and no step changes the generator's options
C15_CallsDeterministicIndependent ==
    /\ []CallsIndependent
    /\ [][generator'.options = generator.options]_vars

\* a second call on the same input, with other flags, was started after the
\* first and has returned its workflow while the first still waits in the
\* middle of the pipeline
C15_Witness ==
    /\ Len(invocations) = 2
    /\ invocations[1].pc = "analyzed"
    /\ invocations[2].pc = "done"
    /\ invocations[1].flags # invocations[2].flags
    /\ invocations[1].input = invocations[2].input
    /\ resultOf(invocations[2]).workflow # <<>>
    /\ resultOf(invocations[2])
           = aloneResult(generator, invocations[2].input, invocations[2].flags)

(***************************************************************************)
(* A strategy outside the catalog                                          *)
(***************************************************************************)
UnknownStrategy == options.strategy \notin Strategies

\* the call has run persona.generateWorkflow: it returned, or it threw
SynthesisReturned == pc \in {"synthesized", "enhanced", "done"}
SynthesisThrew == pc = "failed" /\ persona # Undefined /\ baseWorkflow = NoWorkflow

\* what the persona returns for the same requirements under --strategy systematic
underSystematic ==
    generateWorkflow(persona, requirements, [options EXCEPT !.strategy = "systematic"])

\* C21 as stated: a strategy that is not in the catalog (systematic, agile, mvp)
\* fails the run with an unknown-strategy error and no workflow is produced.
C21_UnknownStrategyFatal ==
    UnknownStrategy => /\ ~SynthesisReturned
                       /\ baseWorkflow = NoWorkflow
                       /\ SynthesisThrew =>
                              error = Rethrown("Unknown strategy: " \o options.strategy)

\* C21 amended: a strategy that is not in the catalog is no error.  The persona
\* takes the default branch of its switch: it returns the workflow of the
\* systematic strategy with the given name recorded as workflow.strategy, and
\* throws only what the systematic strategy throws for these requirements.
C21_UnknownStrategySystematic ==
    UnknownStrategy =>
        /\ SynthesisReturned =>
               /\ underSystematic.ok
               /\ baseWorkflow =
                      [underSystematic.workflow EXCEPT !.strategy = options.strategy]
        /\ SynthesisThrew =>
               /\ ~underSystematic.ok
               /\ error = Rethrown(underSystematic.message)

C21_Witness ==
    /\ options.strategy = "waterfall"
    /\ pc = "done"
    /\ baseWorkflow.strategy = "waterfall"
    /\ Len(baseWorkflow.phases) > 0
    /\ formattedOutput # <<>>

(***************************************************************************)
(* The formatter on the enriched workflow                                  *)
(***************************************************************************)
\* the call reached outputFormatter.format and format threw
FormatThrew == pc = "failed" /\ enhancedWorkflow # NoWorkflow

\* C22: for every output format (roadmap, tasks, detailed) and every combination
\* of enrichment options the formatter does not throw on the workflow it is
\* handed, and the output of a completed run has a section for the attached
\* dependencies and one for the attached risks.
C22_EveryFormatRenders ==
    options.output \in {"roadmap", "tasks", "detailed"} =>
        /\ ~FormatThrew
        /\ (pc = "done" /\ "dependencies" \in enhancedWorkflow.attached)
               => "## Dependencies" \in Range(formattedOutput)
        /\ (pc = "done" /\ "risks" \in enhancedWorkflow.attached)
               => "## Risk Assessment" \in Range(formattedOutput)

(***************************************************************************)
(* The collections of the Requirements record                              *)
(***************************************************************************)
\* no two entries of the list are equal when letter case is disregarded
NoCaseDuplicates(list) ==
    \A i, j \in 1..Len(list) : i # j => toLowerCase(list[i]) # toLowerCase(list[j])

featureNames(r) == [i \in 1..Len(r.features) |-> r.features[i].name]

\* C23: after extraction each collection of the Requirements record (features,
\* components, integrations, user roles, pages) has no two entries that are
\* equal when compared without regard to letter case.
C23_CollectionsDeduplicated ==
    pc = "parsed" =>
        /\ NoCaseDuplicates(featureNames(requirements))
        /\ NoCaseDuplicates(requirements.components)
        /\ NoCaseDuplicates(requirements.integrations)
        /\ NoCaseDuplicates(requirements.userRoles)
        /\ NoCaseDuplicates(requirements.pages)

(***************************************************************************)
(* DependencyAnalyzer on workflows whose tasks declare dependencies.  The  *)
(* analyzer takes any workflow object; the workflows here have up to       *)
(* MaxPhases phases, each with one of the task lists below.                *)
(***************************************************************************)
MaxPhases == 3

DeclaringTask(title, priority, dependencies) ==
    [ type |-> "implement", title |-> title, description |-> Undefined, tools |-> <<>>,
      priority |-> priority, estimatedHours |-> 0, storyPoints |-> 0,
      deliverables |-> <<>>, dependencies |-> dependencies ]

DependencyTaskLists ==
    { <<>>,
      << PlainTask("implement", "Implement login", Undefined) >>,
      << DeclaringTask("Implement login", "high", <<>>),
         DeclaringTask("Implement search", Undefined, <<"Implement login">>) >>,
      << DeclaringTask("Implement payment api", "high",
                       <<"Implement login", "Implement search">>),
         PlainTask("implement", "Implement dashboard", Undefined),
         DeclaringTask("Implement search", "medium", <<"Implement login">>) >> }

DependencyPhaseLists ==
    UNION { [1..n -> DependencyTaskLists] : n \in 0..MaxPhases }

DependencyWorkflows ==
    { [generateWorkflow("backend", EmptyRequirements, DefaultOptions).workflow
          EXCEPT !.phases = [i \in 1..Len(tasks) |->
                                Phase("Sprint " \o ToStr(i), "sprint", "2 weeks", tasks[i])]]
        : tasks \in DependencyPhaseLists }

InitDependencies ==
    /\ pc = "synthesized"
    /\ input = Undefined
    /\ options \in {[DefaultOptions EXCEPT !.includeDependencies = TRUE,
                                            !.enableParallel = e] : e \in BOOLEAN}
    /\ requirements = EmptyRequirements
    /\ analysis = NoAnalysis
    /\ persona = "backend"
    /\ baseWorkflow \in DependencyWorkflows
    /\ enhancedWorkflow = NoWorkflow
    /\ error = NoError
    /\ formattedOutput = <<>>
    /\ validation = NoValidation
    /\ generator = NoGenerator
    /\ invocations = <<>>
    /\ extraction = NoExtraction

NextDependencies == EnhanceWorkflow

SpecDependencies == InitDependencies /\ [][NextDependencies]_vars

\* the entries of the list of the given type, in the list's order
OfType(list, type) == SelectSeq(list, LAMBDA dependency : dependency.type = type)

\* one name per entry of every task's dependencies field, in task order
DeclaredNames(workflow) ==
    Flatten([ t \in 1..Len(allTasks(workflow)) |->
                [ d \in 1..Len(declaredDependencies(allTasks(workflow)[t])) |->
                    allTasks(workflow)[t].title \o " depends on "
                    \o declaredDependencies(allTasks(workflow)[t])[d] ] ])

NamesOf(list) == [i \in 1..Len(list) |-> list[i].name]

InternalAnalysed == pc = "enhanced" /\ "dependencies" \in enhancedWorkflow.attached

\* C24: for a workflow with n phases the internal list has exactly max(n-1, 0)
\* phase dependencies, the k-th stating that phase k+1 depends on phase k, exactly
\* one task dependency for every entry of every task's dependencies field, and
\* no other entry.
C24_InternalDependencies ==
    InternalAnalysed =>
        LET internal == enhancedWorkflow.dependencies.internal
            phases == baseWorkflow.phases
        IN  /\ Len(OfType(internal, "phase")) = Max(Len(phases) - 1, 0)
            /\ \A k \in 1..Len(OfType(internal, "phase")) :
                   OfType(internal, "phase")[k].name
                       = phases[k + 1].name \o " depends on " \o phases[k].name
            /\ NamesOf(OfType(internal, "task")) = DeclaredNames(baseWorkflow)
            /\ Len(internal) = Len(OfType(internal, "phase")) + Len(OfType(internal, "task"))

C24_Witness ==
    /\ InternalAnalysed
    /\ Len(baseWorkflow.phases) = 3
    /\ Len(OfType(enhancedWorkflow.dependencies.internal, "phase")) = 2
    /\ Len(OfType(enhancedWorkflow.dependencies.internal, "task")) = 5
    /\ enhancedWorkflow.dependencies.internal[1].type = "task"

(***************************************************************************)
(* The summary and the mitigation plan of the risk assessment              *)
(***************************************************************************)
RisksAssessed == pc = "enhanced" /\ "risks" \in enhancedWorkflow.attached

\* the risks the five rules triggered, in the order assess flattens them
TriggeredRisks(risks) ==
    risks.technical \o risks.timeline \o risks.security \o risks.business \o risks.resource

\* impact score times probability score, from the two level tables
ImpactTimesProbability(risk) ==
    (CASE risk.impact = "low" -> 1 [] risk.impact = "medium" -> 2
       [] risk.impact = "high" -> 3 [] risk.impact = "critical" -> 4)
    * (CASE risk.probability = "low" -> 1 [] risk.probability = "medium" -> 2
         [] risk.probability = "high" -> 3 [] risk.probability = "certain" -> 4)

\* the number of entries of the bucket that name the risk
EntriesFor(bucket, name) == Len(SelectSeq(bucket, LAMBDA entry : entry.risk = name))

\* C25: the summary's risk score is the average over the triggered risks of
\* impact score times probability score (here in hundredths, rounded down), each
\* triggered risk is in exactly one bucket of the mitigation plan: immediate when
\* its score is at least 9, short-term when at least 6 and below 9, long-term
\* otherwise; and each has exactly one monitoring entry.
C25_RiskScoreAndBuckets ==
    RisksAssessed =>
        LET risks == enhancedWorkflow.risks
            triggered == TriggeredRisks(risks)
            total == SumSeq([i \in 1..Len(triggered) |-> ImpactTimesProbability(triggered[i])])
            plan == risks.mitigation
        IN  /\ Len(triggered) > 0
            /\ risks.summary.riskScore * Len(triggered) <= total * 100
            /\ total * 100 < (risks.summary.riskScore + 1) * Len(triggered)
            /\ \A i \in 1..Len(triggered) :
                   LET name == triggered[i].name
                       score == ImpactTimesProbability(triggered[i])
                   IN  /\ EntriesFor(plan.immediate, name) = (IF score >= 9 THEN 1 ELSE 0)
                       /\ EntriesFor(plan.shortTerm, name)
                              = (IF score >= 6 /\ score < 9 THEN 1 ELSE 0)
                       /\ EntriesFor(plan.longTerm, name) = (IF score < 6 THEN 1 ELSE 0)
                       /\ EntriesFor(plan.monitoring, name) = 1

C25_Witness ==
    /\ RisksAssessed
    /\ enhancedWorkflow.risks.mitigation.immediate # <<>>
    /\ enhancedWorkflow.risks.mitigation.shortTerm # <<>>
    /\ enhancedWorkflow.risks.mitigation.longTerm # <<>>
    /\ enhancedWorkflow.risks.summary.riskScore % 100 # 0

(***************************************************************************)
(* The order of the stages of one call                                     *)
(***************************************************************************)
\* the position a stage leaves the call at when it returns
StageAfter(position) ==
    CASE position = "start" -> "parsed"
      [] position = "parsed" -> "analyzed"
      [] position = "analyzed" -> "selected"
      [] position = "selected" -> "synthesized"
      [] position = "synthesized" -> "enhanced"
      [] position = "enhanced" -> "done"
      [] OTHER -> Undefined

\* the message of the error the stage about to run raises
StageMessage ==
    CASE pc = "start" -> parseInput(input).message
      [] pc = "analyzed" -> selectPersona(analysis, options).message
      [] pc = "selected" -> generateWorkflow(persona, requirements, options).message
      [] pc = "enhanced" -> format(enhancedWorkflow, options.output).message
      [] OTHER -> NoError

\* one step of the call: the next stage in the fixed order returns, or it raises
\* and the call ends with the wrapped message and without output
StageStep ==
    /\ pc \notin {"done", "failed"}
    /\ pc' \in {StageAfter(pc), "failed"}
    /\ pc' = "failed" =>
           /\ StageMessage # NoError
           /\ error' = "Workflow generation failed: " \o StageMessage
           /\ formattedOutput' = <<>>
    /\ pc' # "failed" => error' = NoError

\* C26: the stages run in the order parse, analyze, select, synthesize, enrich,
\* format, each at most once; once a stage raises, no later stage runs, nothing
\* is retried, and the call ends with an error that carries the message of the
\* error raised, never with a result.
C26_StagesInOrder ==
    /\ [][StageStep]_vars
    /\ [](pc = "failed" => error # NoError /\ formattedOutput = <<>>)
    /\ [](pc = "done" => error = NoError)

C26_Witness ==
    /\ pc = "failed"
    /\ requirements # NoRequirements
    /\ analysis # NoAnalysis
    /\ persona # Undefined
    /\ baseWorkflow # NoWorkflow
    /\ enhancedWorkflow # NoWorkflow
    /\ error = "Workflow generation failed: Unknown output format: html"
    /\ formattedOutput = <<>>

(***************************************************************************)
(* The metadata of the workflow and the metadata of the result             *)
(***************************************************************************)
\* C27: the complexity, risk level and estimated duration in the workflow's
\* metadata are the values the scorer computed for the run's requirements, the
\* ones the call returns as its result metadata (analysis.complexity is in
\* hundredths, metadata.complexity in ten-thousandths, the durations in weeks).
C27_MetadataFromScorer ==
    SynthesisReturned =>
        /\ baseWorkflow.metadata.complexity = analysis.complexity * 100
        /\ baseWorkflow.metadata.riskLevel = analysis.riskLevel
        /\ weeksOf(baseWorkflow.metadata.estimatedDuration) = analysis.estimatedDuration
        /\ pc \in {"enhanced", "done"} => enhancedWorkflow.metadata = baseWorkflow.metadata

(***************************************************************************)
(* PRDParser.extractSections on the tokens of a markdown document: every   *)
(* document of up to MaxTokens tokens, and documents with the eight named  *)
(* headings, each followed by a paragraph.                                 *)
(***************************************************************************)
MaxTokens == 2

\* the headings named after the sections, and the section each is meant for
NamedHeadings ==
    << <<"Overview", "overview">>, <<"Features", "features">>,
       <<"User Stories", "userStories">>, <<"Acceptance Criteria", "acceptance">>,
       <<"Technical Requirements", "technical">>, <<"Constraints", "constraints">>,
       <<"Timeline", "timeline">>, <<"Resources", "resources">> >>

HeadingTexts ==
    {NamedHeadings[i][1] : i \in 1..Len(NamedHeadings)}
    \cup {"OVERVIEW", "technical requirements", "Notes", "Glossary"}

Tokens ==
    {HeadingToken(text) : text \in HeadingTexts}
    \cup {ParagraphToken(text) : text \in {"First paragraph", "Second paragraph"}}

\* the eight headings in the order given, each with one paragraph under it
EightHeadings(order) ==
    Flatten([ i \in 1..Len(order) |->
                << HeadingToken(NamedHeadings[order[i]][1]),
                   ParagraphToken("Paragraph " \o ToStr(order[i])) >> ])

Documents ==
    UNION { [1..n -> Tokens] : n \in 0..MaxTokens }
    \cup { EightHeadings(<<1, 2, 3, 4, 5, 6, 7, 8>>),
           EightHeadings(<<5, 2, 1, 3, 4, 6, 7, 8>>),
           EightHeadings(<<8, 7, 6, 5, 4, 3, 2, 1>>) }

\* const sections = this.extractSections(tokens)
ExtractSections ==
    /\ ~extraction.extracted
    /\ extraction' = [extraction EXCEPT !.sections = extractSections(extraction.tokens),
                                        !.extracted = TRUE]
    /\ UNCHANGED <<pc, input, options, requirements, analysis, persona, baseWorkflow,
                   enhancedWorkflow, error, formattedOutput, validation, generator,
                   invocations>>

InitSections ==
    /\ pc = "start"
    /\ input = "docs/prd.md"
    /\ options = DefaultOptions
    /\ requirements = NoRequirements
    /\ analysis = NoAnalysis
    /\ persona = Undefined
    /\ baseWorkflow = NoWorkflow
    /\ enhancedWorkflow = NoWorkflow
    /\ error = NoError
    /\ formattedOutput = <<>>
    /\ validation = NoValidation
    /\ generator = NoGenerator
    /\ invocations = <<>>
    /\ extraction \in { [tokens |-> document, sections |-> EmptyObject, extracted |-> FALSE] :
                          document \in Documents }

NextSections == ExtractSections

SpecSections == InitSections /\ [][NextSections]_vars

\* the section a heading is meant for: its own when it is one of the eight names
\* in any letter case, other when no keyword occurs in it
MeantSection(text) ==
    LET named == {i \in 1..Len(NamedHeadings) :
                     toLowerCase(NamedHeadings[i][1]) = toLowerCase(text)}
    IN  IF named # {} THEN NamedHeadings[CHOOSE i \in named : TRUE][2] ELSE "other"

HeadingsOf(tokens) == SelectSeq(tokens, LAMBDA token : token.type = "heading")

SectionsExtracted == extraction # NoExtraction /\ extraction.extracted

\* C28: a heading that consists of the name of one of the eight sections, in any
\* letter case, is classified as that section, and a heading without a keyword
\* as other; so the sections found are those the headings are meant for, and a
\* document with the eight headings yields eight sections.
C28_HeadingsClassified ==
    SectionsExtracted =>
        LET headings == HeadingsOf(extraction.tokens)
        IN  /\ \A i \in 1..Len(headings) :
                   identifySection(headings[i].text) = MeantSection(headings[i].text)
            /\ DOMAIN extraction.sections
                   = {MeantSection(headings[i].text) : i \in 1..Len(headings)}

(***************************************************************************)
(* Blockers and the overall verdict                                        *)
(***************************************************************************)
\* C29: whenever validation reports at least one blocker, a gate scoring below
\* 0.50, overall.passed is false.
C29_BlockerFailsOverall ==
    (Validated /\ validation.blockers # <<>>) => ~validation.overall.passed

(***************************************************************************)
(* The implementation phases in the systematic plan                        *)
(***************************************************************************)
\* every feature of priority high or medium is an implementation task of some
\* phase, and without features the default phase is there
ImplementationIncluded(phases, r) ==
    /\ \A i \in 1..Len(r.features) :
           r.features[i].priority \in {"high", "medium"} =>
               \E p \in 1..Len(phases) : \E t \in 1..Len(phases[p].tasks) :
                   /\ phases[p].tasks[t].type = "implement"
                   /\ phases[p].tasks[t].title = "Implement " \o r.features[i].name
    /\ r.features = <<>> => \E p \in 1..Len(phases) : phases[p].name = "Implementation"

\* C30: under the systematic strategy the implementation phases built from the
\* features are part of the plan of the frontend persona, and of the plan
\* BasePersona's own generateSystematicWorkflow returns for the same requirements.
C30_ImplementationPhasesIncluded ==
    (Synthesized("systematic") /\ persona = "frontend") =>
        /\ ImplementationIncluded(baseWorkflow.phases, requirements)
        /\ ImplementationIncluded(
               generateSystematicWorkflow("BasePersona", requirements).phases, requirements)
====
